---- MODULE Spec2Model ----
(***************************************************************************)
(* HybridHDCModel of research/learned_hdc/hybrid_hdc_combined.py: the      *)
(* k-mer vocabulary, the embedding table and encode, contrastive           *)
(* pre-training, supervised fine-tuning with early stopping, and the       *)
(* predictor.                                                              *)
(*                                                                         *)
(* Numbers.  The program computes in IEEE doubles.  Here a real x is the   *)
(* integer x * One (fixed point, rounding toward zero); the second Adam    *)
(* moment, which holds products of two reals scaled by 1 - beta2, is kept   *)
(* in units of 1 / (One * One * 1000).  numpy's RandomState is a           *)
(* deterministic generator seeded at construction; it is modelled by a     *)
(* small linear congruential generator, so that every draw advances the    *)
(* state variable rng and a run is a function of the seed and the inputs.  *)
(*                                                                         *)
(* Strings are sequences of one-character strings; list and array indices  *)
(* are 0-based as in the program wherever they are values (k-mer indices), *)
(* and positions of TLA+ sequences are 1-based.                            *)
(***************************************************************************)
EXTENDS Integers, Sequences, FiniteSets, TLC

VARIABLES
    config,         \* self.config (HybridConfig), fixed at construction
    rng,            \* self.rng: state of the random source
    embeddings,     \* self.embeddings: [0..4^k-1 -> vector of dim reals]
    kmers,          \* self.kmers: the list generate_kmers(k)
    kmer_to_idx,    \* self.kmer_to_idx: dict k-mer -> index
    W1, b1, W2, b2, \* classifier weights, None until finetune
    opt_W1, opt_b1, opt_W2, opt_b2,  \* AdamOptimizer objects, absent until finetune
    embed_m, embed_v, embed_t,       \* Adam state of the embedding table
    is_pretrained, is_finetuned,
    pc,             \* "idle", or the position inside a running call
    frame,          \* arguments and locals of the running call
    ret,            \* what the last finished call returned or raised
    prev,           \* what the finished call before that one returned or raised
    ncalls          \* training calls started since construction, per method

vars == <<config, rng, embeddings, kmers, kmer_to_idx, W1, b1, W2, b2,
          opt_W1, opt_b1, opt_W2, opt_b2, embed_m, embed_v, embed_t,
          is_pretrained, is_finetuned, pc, frame, ret, prev, ncalls>>

\* The fields of the model object (everything but the call bookkeeping).
model_state == <<config, rng, embeddings, kmers, kmer_to_idx, W1, b1, W2, b2,
                 opt_W1, opt_b1, opt_W2, opt_b2, embed_m, embed_v, embed_t,
                 is_pretrained, is_finetuned>>

(***************************************************************************)
(* Bounds of the model.                                                    *)
(***************************************************************************)
MaxK == 2          \* kmer_length ranges over 1..MaxK
MaxLen == 4        \* encode is applied to every sequence of length <= MaxLen
MaxCalls == 2      \* training calls per run of the lifecycle specification
MaxUpdates == 2    \* update calls on one AdamOptimizer object in SpecAdam

(***************************************************************************)
(* Fixed-point arithmetic.                                                 *)
(***************************************************************************)
One == 10^3
None == << >>

\* np.array(v): the value v itself.  TLC evaluates a function constructor on
\* demand, entry by entry and again at every use; comparing the value with
\* itself computes all its entries once.
array(v) == IF v = v THEN v ELSE v

Abs(a) == IF a >= 0 THEN a ELSE -a
Sign(a) == IF a > 0 THEN 1 ELSE IF a < 0 THEN -1 ELSE 0
Max(a, b) == IF a >= b THEN a ELSE b
Min(a, b) == IF a <= b THEN a ELSE b

\* a / b for b > 0, rounded toward zero.
TDiv(a, b) == IF a >= 0 THEN a \div b ELSE -((-a) \div b)

\* a * b / c for c > 0 without forming a * b when |a| is large.
MulDiv(a, b, c) ==
    LET q == Abs(a) \div c
        r == Abs(a) % c
    IN Sign(a) * (q * b + (r * b) \div c)

RECURSIVE SqrtIter(_, _)
SqrtIter(n, x) ==
    LET y == (x + n \div x) \div 2
    IN IF y >= x THEN x ELSE SqrtIter(n, y)

\* floor of the square root of n >= 0.
ISqrt(n) == IF n <= 0 THEN 0 ELSE SqrtIter(n, n)

\* np.exp.  e^x = e^i * e^f with i the whole part of x and 0 <= f < 1 (a
\* Taylor polynomial); e^-x = 1 / e^x.  Arguments above ExpCap whole units
\* do not fit the 32-bit integers of TLC and do not occur for the
\* configurations of this model.
exp_frac(f) ==
    LET t1 == f
        t2 == TDiv(t1 * f, 2 * One)
        t3 == TDiv(t2 * f, 3 * One)
        t4 == TDiv(t3 * f, 4 * One)
        t5 == TDiv(t4 * f, 5 * One)
        t6 == TDiv(t5 * f, 6 * One)
    IN One + t1 + t2 + t3 + t4 + t5 + t6

RECURSIVE exp_whole(_)
exp_whole(i) == IF i = 0 THEN One ELSE MulDiv(exp_whole(i - 1), 2718, One)

ExpCap == 14

FxExp(x) ==
    LET a == Abs(x)
        i == a \div One
        f == a % One
        pos == IF i > ExpCap THEN exp_whole(ExpCap)
               ELSE MulDiv(exp_whole(i), exp_frac(f), One)
    IN IF x >= 0 THEN pos ELSE (One * One) \div pos

\* np.log of p > 0: multiply by e until p >= 1/e, then the series of
\* 2 * atanh((p - 1) / (p + 1)); divide by e while p > 1.
log_near_one(p) ==
    LET z == TDiv((p - One) * One, p + One)
        z2 == TDiv(z * z, One)
        z3 == TDiv(z * z2, One)
        z5 == TDiv(z3 * z2, One)
        z7 == TDiv(z5 * z2, One)
    IN 2 * (z + TDiv(z3, 3) + TDiv(z5, 5) + TDiv(z7, 7))

RECURSIVE FxLog(_)
FxLog(p) ==
    IF p * 2718 < One * One THEN FxLog(MulDiv(p, 2718, One) + 1) - One
    ELSE IF p > 2718 THEN FxLog(MulDiv(p, One, 2718)) + One
    ELSE log_near_one(p)

\* np.clip
clip(x, lo, hi) == Max(lo, Min(x, hi))

Zeros(n) == [d \in 1..n |-> 0]

RECURSIVE SumSeq(_)
SumSeq(s) == IF s = << >> THEN 0 ELSE Head(s) + SumSeq(Tail(s))

Dot(a, b) == SumSeq([d \in DOMAIN a |-> a[d] * b[d]])

\* np.linalg.norm
Norm(a) == ISqrt(Dot(a, a))

(***************************************************************************)
(* The random source.                                                      *)
(***************************************************************************)
RngMod == 2^15 - 19
RngMul == 219
RngInc == 74

rng_seed(seed) == seed % RngMod
rng_next(s) == (RngMul * s + RngInc) % RngMod

\* n draws map the state s to (A * s + C) % RngMod; rng_jump(n) is <<A, C>>
RECURSIVE rng_jump(_)
rng_jump(n) ==
    IF n = 0 THEN <<1, 0>>
    ELSE IF n % 2 = 0
         THEN LET h == rng_jump(n \div 2)
              IN <<(h[1] * h[1]) % RngMod, (h[1] * h[2] + h[2]) % RngMod>>
         ELSE LET h == rng_jump(n - 1)
              IN <<(RngMul * h[1]) % RngMod, (RngMul * h[2] + RngInc) % RngMod>>

\* the state after n draws
rng_after(s, n) == LET j == rng_jump(n) IN (j[1] * s + j[2]) % RngMod

\* the states after 1, 2, ..., n draws
rng_stream(s, n) == array([i \in 1..n |-> rng_after(s, i)])

\* one standard-normal draw read off a generator state
randn_value(x) == ((x % 7) - 3) * (One \div 2)

(***************************************************************************)
(* KmerVocabulary                                                          *)
(***************************************************************************)
bases == <<"A", "C", "G", "T">>

\* generate_kmers with "s + b" for "b + s": the new base is the last symbol
RECURSIVE generate_kmers_appending(_)
generate_kmers_appending(k) ==
    IF k = 1 THEN [i \in 1..Len(bases) |-> <<bases[i]>>]
    ELSE LET smaller == generate_kmers_appending(k - 1)
             n == Len(smaller)
         IN [j \in 1..(Len(bases) * n) |->
                smaller[((j - 1) % n) + 1] \o <<bases[((j - 1) \div n) + 1]>>]

\* generate_kmers with the comprehension running over bases[1:]
RECURSIVE generate_kmers_skip_first(_)
generate_kmers_skip_first(k) ==
    IF k = 1 THEN [i \in 1..Len(bases) |-> <<bases[i]>>]
    ELSE LET smaller == generate_kmers_skip_first(k - 1)
             n == Len(smaller)
         IN [j \in 1..((Len(bases) - 1) * n) |->
                <<bases[((j - 1) \div n) + 2]>> \o smaller[((j - 1) % n) + 1]]

RECURSIVE generate_kmers(_)
generate_kmers(k) ==
    IF k = 1 THEN [i \in 1..Len(bases) |-> <<bases[i]>>]
    ELSE LET smaller == generate_kmers(k - 1)
             n == Len(smaller)
         IN [j \in 1..(Len(bases) * n) |->
                <<bases[((j - 1) \div n) + 1]>> \o smaller[((j - 1) % n) + 1]]

\* {kmer: i for i, kmer in enumerate(kmers)}: a later duplicate overwrites.
make_kmer_to_idx(ks) ==
    [s \in {ks[i] : i \in DOMAIN ks} |->
        (CHOOSE i \in DOMAIN ks :
            ks[i] = s /\ \A j \in DOMAIN ks : ks[j] = s => j <= i) - 1]

(***************************************************************************)
(* SequenceEncoder                                                         *)
(***************************************************************************)
upper(c) ==
    CASE c = "a" -> "A" [] c = "c" -> "C" [] c = "g" -> "G" [] c = "t" -> "T"
      [] OTHER -> c

\* the window as it stands in the sequence: sequence[i:i+k]
window_as_written(seq, i, k) == array([j \in 1..k |-> seq[i + j]])

\* sequence[i:i+k].upper() for a 0-based i with i + k <= len(sequence)
window(seq, i, k) == array([j \in 1..k |-> upper(seq[i + j])])

\* The loop "for i in range(len(seq) - k + 1)": the indices of the windows,
\* from 0-based position i on, that kmer_to_idx.get finds.
RECURSIVE indices_from(_, _)
indices_from(seq, i) ==
    LET k == config.kmer_length
    IN IF i > Len(seq) - k THEN << >>
       ELSE LET kmer == window(seq, i, k)
            IN (IF kmer \in DOMAIN kmer_to_idx THEN <<kmer_to_idx[kmer]>> ELSE << >>)
               \o indices_from(seq, i + 1)

\* the loop with kmer_to_idx.get(kmer, 0): an unknown window counts as row 0
RECURSIVE indices_from_default0(_, _)
indices_from_default0(seq, i) ==
    LET k == config.kmer_length
    IN IF i > Len(seq) - k THEN << >>
       ELSE LET kmer == window(seq, i, k)
            IN (IF kmer \in DOMAIN kmer_to_idx THEN <<kmer_to_idx[kmer]>> ELSE <<0>>)
               \o indices_from_default0(seq, i + 1)

kmer_indices_default0(seq) == indices_from_default0(seq, 0)

kmer_indices(seq) == indices_from(seq, 0)

\* the mean over the distinct rows only (indices deduplicated)
mean_rows_unique(emb, indices) ==
    LET rows == {indices[j] : j \in DOMAIN indices}
        RECURSIVE total(_, _)
        total(S, d) == IF S = {} THEN 0
                       ELSE LET r == CHOOSE r \in S : TRUE
                            IN emb[r][d] + total(S \ {r}, d)
    IN [d \in 1..config.dim |-> TDiv(total(rows, d), Cardinality(rows))]

\* vectors.mean(axis=0) of the rows emb[indices]
mean_rows(emb, indices) ==
    array([d \in 1..config.dim |->
        TDiv(SumSeq([j \in DOMAIN indices |-> emb[indices[j]][d]]), Len(indices))])

\* encoding / norm when norm > 0
normalized(enc) ==
    LET norm == Norm(enc)
    IN IF norm > 0 THEN array([d \in DOMAIN enc |-> TDiv(enc[d] * One, norm)]) ELSE enc

\* encode that answers a sequence shorter than k with row 0 of the table
encode_short_as_row0(emb, sequence, normalize) ==
    IF Len(sequence) < config.kmer_length THEN emb[0]
    ELSE LET indices == kmer_indices(sequence)
         IN IF indices = << >> THEN Zeros(config.dim)
            ELSE LET encoding == mean_rows(emb, indices)
                 IN IF normalize THEN normalized(encoding) ELSE encoding

encode(emb, sequence, normalize) ==
    IF Len(sequence) < config.kmer_length THEN Zeros(config.dim)
    ELSE LET indices == kmer_indices(sequence)
         IN IF indices = << >> THEN Zeros(config.dim)
            ELSE LET encoding == mean_rows(emb, indices)
                 IN IF normalize THEN normalized(encoding) ELSE encoding

encode_batch(emb, sequences, normalize) ==
    array([i \in DOMAIN sequences |-> encode(emb, sequences[i], normalize)])

(***************************************************************************)
(* Call bookkeeping: the value or the exception of the last finished call, *)
(* and the arguments and locals of the call that is running.               *)
(***************************************************************************)
Returned(op, args, value) ==
    [op |-> op, args |-> args, value |-> value, error |-> "none"]
Raised(op, args, error) ==
    [op |-> op, args |-> args, value |-> None, error |-> error]
NoReturn == [op |-> "none", args |-> None, value |-> None, error |-> "none"]

NoFrame ==
    [sequences |-> None, labels |-> None, val_seqs |-> None, val_labels |-> None,
     epoch |-> 0, losses |-> None, best_val_acc |-> 0, best_epoch |-> 0,
     patience_counter |-> 0, train_loss |-> None, val_acc |-> None,
     stopped |-> FALSE]

(***************************************************************************)
(* Construction                                                            *)
(***************************************************************************)
\* self.rng.randn(num_kmers, dim) * scale, read in row-major order
init_embeddings(seed, k, dim) ==
    LET num_kmers == 4^k
        scale == ISqrt((2 * One * One) \div dim)
        draws == rng_stream(rng_seed(seed), num_kmers * dim)
    IN array([i \in 0..(num_kmers - 1) |->
          [d \in 1..dim |-> TDiv(randn_value(draws[i * dim + d]) * scale, One)]])

Seeds == {42, 7}

Constructed(cfg, seed) ==
    /\ config = cfg
    /\ rng = rng_after(rng_seed(seed), (4^cfg.kmer_length) * cfg.dim)
    /\ embeddings = init_embeddings(seed, cfg.kmer_length, cfg.dim)
    /\ kmers = generate_kmers(cfg.kmer_length)
    /\ kmer_to_idx = make_kmer_to_idx(generate_kmers(cfg.kmer_length))
    /\ W1 = None /\ b1 = None /\ W2 = None /\ b2 = None
    /\ opt_W1 = None /\ opt_b1 = None /\ opt_W2 = None /\ opt_b2 = None
    /\ embed_m = [i \in 0..(4^cfg.kmer_length - 1) |-> Zeros(cfg.dim)]
    /\ embed_v = [i \in 0..(4^cfg.kmer_length - 1) |-> Zeros(cfg.dim)]
    /\ embed_t = 0
    /\ is_pretrained = FALSE
    /\ is_finetuned = FALSE
    /\ pc = "idle"
    /\ frame = NoFrame
    /\ ret = NoReturn
    /\ prev = NoReturn
    /\ ncalls = [contrastive_pretrain |-> 0, finetune |-> 0]

(***************************************************************************)
(* Classifier head: forward pass                                           *)
(***************************************************************************)
\* x @ W + b for one row x
affine(x, W, b) ==
    array([j \in DOMAIN b |->
        TDiv(SumSeq([i \in DOMAIN x |-> x[i] * W[i][j]]), One) + b[j]])

relu(x) == array([j \in DOMAIN x |-> Max(0, x[j])])

MaxOf(x) == CHOOSE m \in {x[j] : j \in DOMAIN x} : \A j \in DOMAIN x : x[j] <= m

\* np.argmax of one row: the first position of the maximum, 0-based
argmax(x) == (CHOOSE j \in DOMAIN x : x[j] = MaxOf(x) /\ \A i \in 1..(j - 1) : x[i] < x[j]) - 1

\* softmax of one row; the 1e-10 added to the sum is below the resolution
softmax(x) ==
    LET exp_x == array([j \in DOMAIN x |-> FxExp(x[j] - MaxOf(x))])
    IN array([j \in DOMAIN x |-> TDiv(exp_x[j] * One, SumSeq(exp_x))])

\* logits of one sequence under the parameters p
logits_of(p, sequence) ==
    affine(relu(affine(encode(p.embeddings, sequence, TRUE), p.W1, p.b1)), p.W2, p.b2)

(***************************************************************************)
(* Predictor                                                               *)
(***************************************************************************)
\* The parameters a forward pass reads.
Params ==
    [embeddings |-> embeddings, W1 |-> W1, b1 |-> b1, W2 |-> W2, b2 |-> b2]

\* predict without the "W1 is None" check: an unfitted model answers class 0
predict_default_class(p, sequences) ==
    IF p.W1 = None
    THEN Returned("predict", <<sequences>>, array([i \in DOMAIN sequences |-> 0]))
    ELSE IF sequences = << >> THEN Raised("predict", <<sequences>>, "ValueError")
    ELSE Returned("predict", <<sequences>>,
                  array([i \in DOMAIN sequences |-> argmax(logits_of(p, sequences[i]))]))

\* predict: the result of the call under parameters p.  np.stack of an
\* empty list raises ValueError.
predict(p, sequences) ==
    IF p.W1 = None THEN Raised("predict", <<sequences>>, "RuntimeError")
    ELSE IF sequences = << >> THEN Raised("predict", <<sequences>>, "ValueError")
    ELSE Returned("predict", <<sequences>>,
                  array([i \in DOMAIN sequences |-> argmax(logits_of(p, sequences[i]))]))

predict_proba(p, sequences) ==
    IF p.W1 = None THEN Raised("predict_proba", <<sequences>>, "RuntimeError")
    ELSE IF sequences = << >> THEN Raised("predict_proba", <<sequences>>, "ValueError")
    ELSE Returned("predict_proba", <<sequences>>,
                  array([i \in DOMAIN sequences |-> softmax(logits_of(p, sequences[i]))]))

(***************************************************************************)
(* The calls that only read: encode, predict, predict_proba.               *)
(***************************************************************************)
\* encode with noise drawn from self.rng added to the encoding
EncodeNoisy(sequence, normalize) ==
    /\ pc = "idle"
    /\ ret' = Returned("encode", <<sequence, normalize>>,
                       array([d \in 1..config.dim |->
                           encode(embeddings, sequence, normalize)[d]
                           + randn_value(rng_after(rng, d))]))
    /\ prev' = ret
    /\ rng' = rng_after(rng, config.dim)
    /\ UNCHANGED <<config, embeddings, kmers, kmer_to_idx, W1, b1, W2, b2,
                   opt_W1, opt_b1, opt_W2, opt_b2, embed_m, embed_v, embed_t,
                   is_pretrained, is_finetuned, pc, frame, ncalls>>

Encode(sequence, normalize) ==
    /\ pc = "idle"
    /\ ret' = Returned("encode", <<sequence, normalize>>,
                       encode(embeddings, sequence, normalize))
    /\ prev' = ret
    /\ UNCHANGED <<model_state, pc, frame, ncalls>>

\* predict that counts itself as a step of the embedding optimizer
PredictStepping(sequences) ==
    /\ pc = "idle"
    /\ ret' = predict(Params, sequences)
    /\ prev' = ret
    /\ embed_t' = IF W1 = None THEN embed_t ELSE embed_t + 1
    /\ UNCHANGED <<config, rng, embeddings, kmers, kmer_to_idx, W1, b1, W2, b2,
                   opt_W1, opt_b1, opt_W2, opt_b2, embed_m, embed_v,
                   is_pretrained, is_finetuned, pc, frame, ncalls>>

Predict(sequences) ==
    /\ pc = "idle"
    /\ ret' = predict(Params, sequences)
    /\ prev' = ret
    /\ UNCHANGED <<model_state, pc, frame, ncalls>>

PredictProba(sequences) ==
    /\ pc = "idle"
    /\ ret' = predict_proba(Params, sequences)
    /\ prev' = ret
    /\ UNCHANGED <<model_state, pc, frame, ncalls>>

(***************************************************************************)
(* Random helpers of the trainers                                          *)
(***************************************************************************)
\* rng.random() < rate, read off the state x reached by the draw
below_rate(x, rate) == x * One < rate * RngMod

\* a choice among the bases and the unknown base N
choice_base_or_N(x) == (bases \o <<"N">>)[((x * (Len(bases) + 1)) \div RngMod) + 1]

\* rng.choice(bases)
choice_base(x) == bases[((x * Len(bases)) \div RngMod) + 1]

swap(l, i, j) == [l EXCEPT ![i] = l[j], ![j] = l[i]]

\* rng.shuffle(l): for i = len - 1 down to 1, swap l[i] with l[j] for a drawn
\* j in 0..i.  Returns the list and the state of the generator.  The steps
\* i = hi down to lo of the loop are taken as the upper half of the range,
\* then the lower half, which is the order of the loop; a half is computed
\* (done = done) before the other starts, so that a list of n elements
\* nests log n evaluations, not n.
RECURSIVE shuffle_from(_, _, _, _)
shuffle_from(l, hi, lo, s) ==
    IF hi < lo THEN [list |-> l, rng |-> s]
    ELSE IF hi = lo
    THEN LET x == rng_next(s)
             j == (x * (hi + 1)) \div RngMod
         IN [list |-> swap(l, hi + 1, j + 1), rng |-> x]
    ELSE LET mid == (hi + lo) \div 2
             done == shuffle_from(l, hi, mid + 1, s)
         IN IF done = done THEN shuffle_from(done.list, mid, lo, done.rng) ELSE done

shuffle(l, s) == shuffle_from(l, Len(l) - 1, 1, s)

\* rng.permutation(n): a shuffle of 0..n-1
permutation(n, s) == shuffle([i \in 1..n |-> i - 1], s)

(***************************************************************************)
(* Augmenter                                                               *)
(***************************************************************************)
\* the default of the parameter mutation_rate: 0.1
mutation_rate == One \div 10

\* "for i in range(len(seq)): if rng.random() < rate: seq[i] =
\* rng.choice(bases)" from 1-based position i on
RECURSIVE augment_from(_, _, _, _)
augment_from(seq, i, s, rate) ==
    IF i > Len(seq) THEN [seq |-> seq, rng |-> s]
    ELSE LET x == rng_next(s)
         IN IF below_rate(x, rate)
            THEN LET y == rng_next(x)
                 IN augment_from([seq EXCEPT ![i] = choice_base(y)], i + 1, y, rate)
            ELSE augment_from(seq, i + 1, x, rate)

\* augment_sequence(sequence, rng, mutation_rate): the sequence returned and
\* the state the generator is left in
augment_sequence(sequence, s, rate) == augment_from(sequence, 1, s, rate)

\* augment_sequence of hdc_contrastive.py: random mutations, then random
\* masking, where a masked position is replaced with a random base
augment_sequence_masking(sequence, s, rate, mask_rate) ==
    LET mutated == augment_from(sequence, 1, s, rate)
    IN augment_from(mutated.seq, 1, mutated.rng, mask_rate)

\* [augment_sequence(seq, self.rng) for seq in sequences], positions lo..hi
\* of the list: the lower half of the range, then the upper half, which is
\* the order of the comprehension.
RECURSIVE augment_all(_, _, _, _)
augment_all(sequences, lo, hi, s) ==
    IF lo > hi THEN [seqs |-> << >>, rng |-> s]
    ELSE IF lo = hi
    THEN LET a == augment_sequence(sequences[lo], s, mutation_rate)
         IN [seqs |-> <<a.seq>>, rng |-> a.rng]
    ELSE LET mid == (lo + hi) \div 2
             left == augment_all(sequences, lo, mid, s)
             right == augment_all(sequences, mid + 1, hi, left.rng)
         IN IF left = left
            THEN [seqs |-> left.seqs \o right.seqs, rng |-> right.rng]
            ELSE left

\* A call augment_sequence(sequence, model.rng, rate) from outside the model.
Augment(sequence, rate) ==
    /\ pc = "idle"
    /\ LET a == augment_sequence(sequence, rng, rate)
       IN /\ ret' = Returned("augment_sequence", <<sequence, rate>>, a.seq)
          /\ rng' = a.rng
    /\ prev' = ret
    /\ UNCHANGED <<config, embeddings, kmers, kmer_to_idx, W1, b1, W2, b2,
                   opt_W1, opt_b1, opt_W2, opt_b2, embed_m, embed_v, embed_t,
                   is_pretrained, is_finetuned, pc, frame, ncalls>>

\* The same call of the augment_sequence of hdc_contrastive.py.
AugmentMasking(sequence, rate, mask_rate) ==
    /\ pc = "idle"
    /\ LET a == augment_sequence_masking(sequence, rng, rate, mask_rate)
       IN /\ ret' = Returned("augment_sequence", <<sequence, rate, mask_rate>>, a.seq)
          /\ rng' = a.rng
    /\ prev' = ret
    /\ UNCHANGED <<config, embeddings, kmers, kmer_to_idx, W1, b1, W2, b2,
                   opt_W1, opt_b1, opt_W2, opt_b2, embed_m, embed_v, embed_t,
                   is_pretrained, is_finetuned, pc, frame, ncalls>>

(***************************************************************************)
(* Adam.  The first moment m is kept in units of 1 / (10 * One), the       *)
(* second moment v in units of 1 / (1000 * One * One), so that             *)
(* m = beta1 * m + (1 - beta1) * g and v = beta2 * v + (1 - beta2) * g^2   *)
(* lose nothing of g; powers of beta are kept in units of 1 / BetaUnit.    *)
(***************************************************************************)
BetaUnit == 10^3
beta1 == (9 * BetaUnit) \div 10
beta2 == (999 * BetaUnit) \div 1000
adam_eps == One \div 10^8

RECURSIVE beta_pow(_, _)
beta_pow(beta, t) ==
    IF t = 0 THEN BetaUnit ELSE (beta_pow(beta, t - 1) * beta) \div BetaUnit

\* m = beta1 * m + grad, the factor 1 - beta1 forgotten
adam_m_full_gradient(m, g) == TDiv(m * beta1, BetaUnit) + 10 * g

adam_m(m, g) == TDiv(m * beta1, BetaUnit) + g
adam_v(v, g) == v - TDiv(v * (BetaUnit - beta2), BetaUnit) + g * g

\* m / (1 - beta1^t), a real in units of 1 / One
adam_m_hat(m, t) == MulDiv(m, BetaUnit \div 10, BetaUnit - beta_pow(beta1, t))
\* v / (1 - beta2^t), in units of 1 / (One * One)
adam_v_hat(v, t) == TDiv(v, BetaUnit - beta_pow(beta2, t))

\* lr * m_hat / (sqrt(v_hat) + eps).  Where the denominator is below the
\* resolution every gradient so far was, and so is m_hat: the quotient is 0.
adam_delta(m, v, t, lr) ==
    LET den == ISqrt(adam_v_hat(v, t)) + adam_eps
    IN IF den = 0 THEN 0 ELSE MulDiv(adam_m_hat(m, t), lr, den)

(***************************************************************************)
(* ContrastivePretrainer                                                   *)
(***************************************************************************)
batch_size == 32

cosine_similarity(a, b) ==
    LET norm_a == Norm(a)
        norm_b == Norm(b)
    IN IF norm_a = 0 \/ norm_b = 0 THEN 0
       ELSE MulDiv(Dot(a, b), One, norm_a * norm_b)

\* The Adam update of row idx of the embedding table by the gradient grad;
\* p holds the table and its moments, t is embed_t.
update_row(p, idx, grad, t, lr) ==
    LET m == array([d \in DOMAIN grad |-> adam_m(p.embed_m[idx][d], grad[d])])
        v == array([d \in DOMAIN grad |-> adam_v(p.embed_v[idx][d], grad[d])])
    IN [p EXCEPT !.embed_m[idx] = m,
                 !.embed_v[idx] = v,
                 !.embeddings[idx] =
                     array([d \in DOMAIN grad |->
                         p.embeddings[idx][d] - adam_delta(m[d], v[d], t, lr)])]

\* the update written on the whole index array at once,
\* "self.embeddings[indices] -= ...": numpy writes a row that occurs several
\* times in indices once, from the value it had before
update_rows_fancy_indexed(p, indices, j, grad, t, lr) ==
    LET hit == {indices[h] : h \in DOMAIN indices}
        upd == [r \in hit |-> update_row(p, r, grad, t, lr)]
    IN [p EXCEPT !.embed_m = [r \in DOMAIN p.embed_m |->
                                 IF r \in hit THEN upd[r].embed_m[r] ELSE p.embed_m[r]],
                 !.embed_v = [r \in DOMAIN p.embed_v |->
                                 IF r \in hit THEN upd[r].embed_v[r] ELSE p.embed_v[r]],
                 !.embeddings = [r \in DOMAIN p.embeddings |->
                                 IF r \in hit THEN upd[r].embeddings[r] ELSE p.embeddings[r]]]

\* "for idx in indices: ..." from 1-based position j on
RECURSIVE update_rows(_, _, _, _, _, _)
update_rows(p, indices, j, grad, t, lr) ==
    IF j > Len(indices) THEN p
    ELSE update_rows(update_row(p, indices[j], grad, t, lr), indices, j + 1, grad, t, lr)

\* "if indices: grad = d / len(indices); for idx in indices: ..."
update_embeddings(p, indices, d_vec, t, lr) ==
    IF indices = << >> THEN p
    ELSE update_rows(p, indices, 1,
                     array([d \in DOMAIN d_vec |-> TDiv(d_vec[d], Len(indices))]), t, lr)

\* cosine_similarity(a, b) / config.temperature
scaled_similarity(a, b) == TDiv(cosine_similarity(a, b) * One, config.temperature)

\* np.exp(np.clip(sim, -20, 20))
exp_clipped(sim) == FxExp(clip(sim, -20 * One, 20 * One))

\* negatives = [anchors[j] for j in neg_idx[:num_negatives]]; neg_idx holds
\* 1-based positions
take_negatives(anchors, neg_idx) ==
    array([n \in 1..Min(config.num_negatives, Len(neg_idx)) |-> anchors[neg_idx[n]]])

\* the loss without its sign: np.log(exp_pos / (denom + 1e-10))
info_nce_gradient_log_prob(positive, negatives, exp_pos, exp_negs) ==
    [loss |-> FxLog(MulDiv(exp_pos, One, exp_pos + SumSeq(exp_negs))),
     d_anchor |-> Zeros(config.dim)]

\* The InfoNCE loss of one anchor and the gradient d_anchor, from exp_pos
\* and exp_negs.  The 1e-10 added to denom is below the resolution.
info_nce_gradient(positive, negatives, exp_pos, exp_negs) ==
    LET denom == exp_pos + SumSeq(exp_negs)
        prob_pos == MulDiv(exp_pos, One, denom)
        prob_negs == array([n \in DOMAIN negatives |-> MulDiv(exp_negs[n], One, denom)])
        weighted_sum ==
            array([d \in 1..config.dim |->
                TDiv(prob_pos * positive[d], One)
                + SumSeq([n \in DOMAIN negatives |-> TDiv(prob_negs[n] * negatives[n][d], One)])])
    IN [loss |-> -FxLog(MulDiv(exp_pos, One, denom)),
        d_anchor |-> array([d \in 1..config.dim |->
                        TDiv((weighted_sum[d] - positive[d]) * One, config.temperature)])]

info_nce(anchor, positive, negatives) ==
    info_nce_gradient(positive, negatives,
        exp_clipped(scaled_similarity(anchor, positive)),
        array([n \in DOMAIN negatives |-> exp_clipped(scaled_similarity(anchor, negatives[n]))]))

\* "total_loss += loss" and the update of the rows of sample i; s is the
\* generator state after the shuffle, g the loss and gradient of the sample
contrastive_update(p, c, i, s, g) ==
    update_embeddings([p EXCEPT !.rng = s, !.total_loss = p.total_loss + g.loss],
                      c.anchor_indices[i], g.d_anchor, p.embed_t, config.contrastive_lr)

\* the body of "for i in range(batch_size)" once neg_idx is shuffled (sh)
contrastive_sample_shuffled(p, c, i, sh) ==
    contrastive_update(p, c, i, sh.rng,
        info_nce(c.anchors[i], c.positives[i], take_negatives(c.anchors, sh.list)))

\* the candidates with the anchor itself among them
negative_candidates_with_self(n, i) == [j \in 1..n |-> j]

\* "neg_idx = [j for j in range(batch_size) if j != i]", 1-based
negative_candidates(n, i) == SelectSeq([j \in 1..n |-> j], LAMBDA j : j # i)

\* Sample i (1-based) of a contrastive step: its negatives, loss and
\* gradient, then the update of its rows.  c holds what the step computed
\* before the loop: anchors, positives and anchor_indices.
contrastive_sample(p, c, i) ==
    contrastive_sample_shuffled(p, c, i,
        shuffle(negative_candidates(Len(c.anchors), i), p.rng))

\* "for i in range(batch_size)", samples lo..hi: the lower half of the
\* range, then the upper half.  A half is computed (q = q) before the
\* other starts, so that a batch of 32 samples does not nest 32 pending
\* updates.
RECURSIVE contrastive_samples(_, _, _, _)
contrastive_samples(p, c, lo, hi) ==
    IF lo > hi THEN p
    ELSE IF lo = hi THEN contrastive_sample(p, c, lo)
    ELSE LET mid == (lo + hi) \div 2
             q == contrastive_samples(p, c, lo, mid)
         IN IF q = q THEN contrastive_samples(q, c, mid + 1, hi) ELSE q

\* the return of a step that also creates the bias of the hidden layer
contrastive_step_loss_creating_b1(q, n) ==
    [q EXCEPT !.loss = TDiv(q.total_loss, n), !.b1 = Zeros(config.mlp_hidden)]

\* "return total_loss / batch_size"
contrastive_step_loss(q, n) == [q EXCEPT !.loss = TDiv(q.total_loss, n)]

\* a step whose anchor_indices also hold the k-mers of the positive
contrastive_step_updating_positives(p, sequences, aug) ==
    contrastive_step_loss(
        contrastive_samples(
            [p EXCEPT !.rng = aug.rng, !.embed_t = p.embed_t + 1, !.total_loss = 0],
            [anchors |-> encode_batch(p.embeddings, sequences, TRUE),
             positives |-> encode_batch(p.embeddings, aug.seqs, TRUE),
             anchor_indices |-> array([i \in DOMAIN sequences |->
                 kmer_indices(sequences[i]) \o kmer_indices(aug.seqs[i])])],
            1, Len(sequences)),
        Len(sequences))

\* _contrastive_step once the positives are drawn (aug)
contrastive_step_augmented(p, sequences, aug) ==
    contrastive_step_loss(
        contrastive_samples(
            [p EXCEPT !.rng = aug.rng, !.embed_t = p.embed_t + 1, !.total_loss = 0],
            [anchors |-> encode_batch(p.embeddings, sequences, TRUE),
             positives |-> encode_batch(p.embeddings, aug.seqs, TRUE),
             anchor_indices |-> array([i \in DOMAIN sequences |-> kmer_indices(sequences[i])])],
            1, Len(sequences)),
        Len(sequences))

\* _contrastive_step on the training state p (embeddings, embed_m, embed_v,
\* embed_t, rng): the state after the step, with the loss it returns.
contrastive_step(p, sequences) ==
    contrastive_step_augmented(p, sequences, augment_all(sequences, 1, Len(sequences), p.rng))

\* "epoch_loss += loss; n_batches += 1" after a step that led from p to q
add_batch_loss(p, q) ==
    [q EXCEPT !.epoch_loss = p.epoch_loss + q.loss, !.n_batches = p.n_batches + 1]

\* a loop that trains on every batch
skip_batch_never(batch) == FALSE

\* a loop that skips the empty batch only
skip_batch_if_empty(batch) == Len(batch) < 1

\* "if len(batch) < 2: continue"
skip_batch(batch) == Len(batch) < 2

\* The batch loop of one epoch of contrastive_pretrain, from 0-based offset
\* i on; p carries epoch_loss and n_batches.  A batch is computed (q = q)
\* before the loop goes on.
RECURSIVE contrastive_batches(_, _, _)
contrastive_batches(p, seqs_shuf, i) ==
    IF i >= Len(seqs_shuf) THEN p
    ELSE LET batch == SubSeq(seqs_shuf, i + 1, Min(i + batch_size, Len(seqs_shuf)))
             q == IF skip_batch(batch) THEN p ELSE add_batch_loss(p, contrastive_step(p, batch))
         IN IF q = q THEN contrastive_batches(q, seqs_shuf, i + batch_size) ELSE q

\* "avg_loss = epoch_loss / max(n_batches, 1)"
average_loss(q) == [q EXCEPT !.avg_loss = TDiv(q.epoch_loss, Max(q.n_batches, 1))]

\* the epoch once idx is drawn (perm)
contrastive_epoch_shuffled(p, sequences, perm) ==
    average_loss(
        contrastive_batches(
            [p EXCEPT !.rng = perm.rng, !.epoch_loss = 0, !.n_batches = 0],
            array([i \in DOMAIN sequences |-> sequences[perm.list[i] + 1]]), 0))

\* One iteration of "for epoch in range(config.contrastive_epochs)".
contrastive_epoch(p, sequences) ==
    contrastive_epoch_shuffled(p, sequences, permutation(Len(sequences), p.rng))

\* The part of the model a training step works on, with its scratch values.
TrainState ==
    [embeddings |-> embeddings, embed_m |-> embed_m, embed_v |-> embed_v,
     embed_t |-> embed_t, rng |-> rng,
     W1 |-> W1, b1 |-> b1, W2 |-> W2, b2 |-> b2,
     opt_W1 |-> opt_W1, opt_b1 |-> opt_b1, opt_W2 |-> opt_W2, opt_b2 |-> opt_b2,
     total_loss |-> 0, loss |-> 0, epoch_loss |-> 0, n_batches |-> 0, avg_loss |-> 0]

ContrastivePretrainCall(sequences) ==
    /\ pc = "idle"
    /\ pc' = "contrastive_pretrain"
    /\ frame' = [NoFrame EXCEPT !.sequences = sequences, !.losses = << >>]
    /\ ncalls' = [ncalls EXCEPT !.contrastive_pretrain = @ + 1]
    /\ UNCHANGED <<model_state, ret, prev>>

\* The fields of self a training step has written.
StoreTrainState(q) ==
    /\ embeddings' = q.embeddings
    /\ embed_m' = q.embed_m
    /\ embed_v' = q.embed_v
    /\ embed_t' = q.embed_t
    /\ rng' = q.rng
    /\ W1' = q.W1 /\ b1' = q.b1 /\ W2' = q.W2 /\ b2' = q.b2
    /\ opt_W1' = q.opt_W1 /\ opt_b1' = q.opt_b1
    /\ opt_W2' = q.opt_W2 /\ opt_b2' = q.opt_b2

\* the end of an epoch that appends its loss only if a batch was trained
ContrastivePretrainEpochEndSkipping(q) ==
    /\ StoreTrainState(q)
    /\ frame' = [frame EXCEPT !.epoch = @ + 1,
                              !.losses = IF q.n_batches = 0 THEN @ ELSE Append(@, q.avg_loss)]

\* "losses.append(avg_loss)" after an epoch that trained the model to q
ContrastivePretrainEpochEnd(q) ==
    /\ StoreTrainState(q)
    /\ frame' = [frame EXCEPT !.epoch = @ + 1, !.losses = Append(@, q.avg_loss)]

ContrastivePretrainEpoch ==
    /\ pc = "contrastive_pretrain"
    /\ frame.epoch < config.contrastive_epochs
    /\ ContrastivePretrainEpochEnd(contrastive_epoch(TrainState, frame.sequences))
    /\ UNCHANGED <<config, kmers, kmer_to_idx, is_pretrained, is_finetuned,
                   pc, ret, prev, ncalls>>

ContrastivePretrainReturn ==
    /\ pc = "contrastive_pretrain"
    /\ frame.epoch >= config.contrastive_epochs
    /\ is_pretrained' = TRUE
    /\ ret' = Returned("contrastive_pretrain", <<frame.sequences>>, frame.losses)
    /\ prev' = ret
    /\ pc' = "idle"
    /\ frame' = NoFrame
    /\ UNCHANGED <<config, rng, embeddings, kmers, kmer_to_idx, W1, b1, W2, b2,
                   opt_W1, opt_b1, opt_W2, opt_b2, embed_m, embed_v, embed_t,
                   is_finetuned, ncalls>>

\* ContrastiveHDCEncoder.contrastive_loss(anchor, positive, negatives) of
\* hdc_contrastive.py, the same computation as a method: the loss returned.
ContrastiveLoss(anchor, positive, negatives) ==
    /\ pc = "idle"
    /\ ret' = Returned("contrastive_loss", <<anchor, positive, negatives>>,
                       info_nce(anchor, positive, negatives).loss)
    /\ prev' = ret
    /\ UNCHANGED <<model_state, pc, frame, ncalls>>

(***************************************************************************)
(* AdamOptimizer (one object per classifier tensor)                        *)
(***************************************************************************)
\* AdamOptimizer(shape, lr): m and v are zeros of the shape of param
new_optimizer(param, lr, is_matrix) ==
    LET zeros == IF is_matrix
                 THEN array([i \in DOMAIN param |-> [j \in DOMAIN param[i] |-> 0]])
                 ELSE array([j \in DOMAIN param |-> 0])
    IN [lr |-> lr, m |-> zeros, v |-> zeros, t |-> 0]

\* update(param, grad) for a vector: the optimizer and the parameter after
adam_update_vec(opt, param, grad) ==
    LET t == opt.t + 1
        m == array([j \in DOMAIN param |-> adam_m(opt.m[j], grad[j])])
        v == array([j \in DOMAIN param |-> adam_v(opt.v[j], grad[j])])
    IN [opt |-> [opt EXCEPT !.t = t, !.m = m, !.v = v],
        param |-> array([j \in DOMAIN param |-> param[j] - adam_delta(m[j], v[j], t, opt.lr)])]

\* update(param, grad) for a matrix
adam_update_mat(opt, param, grad) ==
    LET t == opt.t + 1
        m == array([i \in DOMAIN param |-> [j \in DOMAIN param[i] |-> adam_m(opt.m[i][j], grad[i][j])]])
        v == array([i \in DOMAIN param |-> [j \in DOMAIN param[i] |-> adam_v(opt.v[i][j], grad[i][j])]])
    IN [opt |-> [opt EXCEPT !.t = t, !.m = m, !.v = v],
        param |-> array([i \in DOMAIN param |->
                     [j \in DOMAIN param[i] |->
                         param[i][j] - adam_delta(m[i][j], v[i][j], t, opt.lr)]])]

\* opt = AdamOptimizer(param.shape, lr); opt.update(param, grad) on a vector:
\* the value is the parameter returned and the optimizer after the call.
AdamUpdate(param, grad, lr) ==
    /\ pc = "idle"
    /\ ret' = Returned("AdamOptimizer.update", <<param, grad, lr>>,
                       adam_update_vec(new_optimizer(param, lr, FALSE), param, grad))
    /\ prev' = ret
    /\ UNCHANGED <<model_state, pc, frame, ncalls>>

\* one more opt.update(param, grad) on the optimizer and the parameter that
\* the last call left
AdamUpdateAgain(grad) ==
    /\ pc = "idle"
    /\ ret.op = "AdamOptimizer.update"
    /\ ret' = Returned("AdamOptimizer.update", <<ret.value.param, grad, ret.value.opt.lr>>,
                       adam_update_vec(ret.value.opt, ret.value.param, grad))
    /\ prev' = ret
    /\ UNCHANGED <<model_state, pc, frame, ncalls>>

(***************************************************************************)
(* ClassifierHead + FineTuner                                              *)
(***************************************************************************)
\* self.rng.randn(rows, cols) * sqrt(2.0 / rows) from the generator state s
randn_matrix(s, rows, cols) ==
    LET scale == ISqrt((2 * One * One) \div rows)
        draws == rng_stream(s, rows * cols)
    IN array([i \in 1..rows |->
          [j \in 1..cols |-> TDiv(randn_value(draws[(i - 1) * cols + j]) * scale, One)]])

\* np.log(p + 1e-10): the 1e-10 matters only where p is below the resolution
log_prob(p) == IF p <= 0 THEN -23026 ELSE FxLog(p)

SumSq(W) == SumSeq([i \in DOMAIN W |-> SumSeq([j \in DOMAIN W[i] |-> TDiv(W[i][j] * W[i][j], One)])])

\* The forward pass of _finetune_step under the parameters p: the k-mer
\* indices and encodings of the batch, the activations and the loss.
finetune_forward(p, sequences, labels) ==
    LET B == Len(sequences)
        C == 1..config.num_classes
        kmer_indices_batch == array([i \in 1..B |-> kmer_indices(sequences[i])])
        encodings ==
            array([i \in 1..B |->
                IF kmer_indices_batch[i] # << >>
                THEN normalized(mean_rows(p.embeddings, kmer_indices_batch[i]))
                ELSE Zeros(config.dim)])
        h1 == array([i \in 1..B |-> affine(encodings[i], p.W1, p.b1)])
        a1 == array([i \in 1..B |-> relu(h1[i])])
        logits == array([i \in 1..B |-> affine(a1[i], p.W2, p.b2)])
        probs == array([i \in 1..B |-> softmax(logits[i])])
        labels_onehot == array([i \in 1..B |-> [c \in C |-> IF c = labels[i] + 1 THEN One ELSE 0]])
        ce_loss == -TDiv(SumSeq([i \in 1..B |->
                            SumSeq([c \in C |->
                                TDiv(labels_onehot[i][c] * log_prob(probs[i][c]), One)])]), B)
        l2_loss == TDiv(config.l2_reg * (SumSq(p.W1) + SumSq(p.W2)), 2 * One)
    IN [kmer_indices_batch |-> kmer_indices_batch, encodings |-> encodings,
        h1 |-> h1, a1 |-> a1, probs |-> probs, labels_onehot |-> labels_onehot,
        loss |-> ce_loss + l2_loss]

\* The backward pass: the gradients, from the values fwd of the forward pass.
finetune_backward(p, fwd) ==
    LET B == Len(fwd.encodings)
        H == 1..config.mlp_hidden
        C == 1..config.num_classes
        D == 1..config.dim
        d_logits == array([i \in 1..B |-> [c \in C |->
                    TDiv(fwd.probs[i][c] - fwd.labels_onehot[i][c], B)]])
        d_a1 == array([i \in 1..B |-> [j \in H |->
                    TDiv(SumSeq([c \in C |-> d_logits[i][c] * p.W2[j][c]]), One)]])
        d_h1 == array([i \in 1..B |-> [j \in H |-> IF fwd.h1[i][j] > 0 THEN d_a1[i][j] ELSE 0]])
    IN [d_W2 |-> array([j \in H |-> [c \in C |->
                    TDiv(SumSeq([i \in 1..B |-> fwd.a1[i][j] * d_logits[i][c]]), One)
                    + TDiv(config.l2_reg * p.W2[j][c], One)]]),
        d_b2 |-> array([c \in C |-> SumSeq([i \in 1..B |-> d_logits[i][c]])]),
        d_W1 |-> array([d \in D |-> [j \in H |->
                    TDiv(SumSeq([i \in 1..B |-> fwd.encodings[i][d] * d_h1[i][j]]), One)
                    + TDiv(config.l2_reg * p.W1[d][j], One)]]),
        d_b1 |-> array([j \in H |-> SumSeq([i \in 1..B |-> d_h1[i][j]])]),
        d_encodings |-> array([i \in 1..B |-> [d \in D |->
                    TDiv(SumSeq([j \in H |-> d_h1[i][j] * p.W1[d][j]]), One)]])]

\* a step of finetune that leaves embed_t to the contrastive steps
store_mlp_updates_keeping_t(p, u, loss) ==
    [p EXCEPT !.W2 = u.W2.param, !.opt_W2 = u.W2.opt,
              !.b2 = u.b2.param, !.opt_b2 = u.b2.opt,
              !.W1 = u.W1.param, !.opt_W1 = u.W1.opt,
              !.b1 = u.b1.param, !.opt_b1 = u.b1.opt,
              !.loss = loss]

\* "self.W2 = self.opt_W2.update(self.W2, d_W2)" and the three after it,
\* u holding what each update returns; "self.embed_t += 1"; the loss
store_mlp_updates(p, u, loss) ==
    [p EXCEPT !.W2 = u.W2.param, !.opt_W2 = u.W2.opt,
              !.b2 = u.b2.param, !.opt_b2 = u.b2.opt,
              !.W1 = u.W1.param, !.opt_W1 = u.W1.opt,
              !.b1 = u.b1.param, !.opt_b1 = u.b1.opt,
              !.embed_t = p.embed_t + 1,
              !.loss = loss]

update_mlp(p, grads, loss) ==
    store_mlp_updates(p,
        [W2 |-> adam_update_mat(p.opt_W2, p.W2, grads.d_W2),
         b2 |-> adam_update_vec(p.opt_b2, p.b2, grads.d_b2),
         W1 |-> adam_update_mat(p.opt_W1, p.W1, grads.d_W1),
         b1 |-> adam_update_vec(p.opt_b1, p.b1, grads.d_b1)],
        loss)

\* "for i, (d_enc, indices) in enumerate(zip(d_encodings, kmer_indices_batch))"
\* from 1-based position i on, with lr = config.finetune_lr * 0.1
RECURSIVE finetune_update_embeddings(_, _, _, _)
finetune_update_embeddings(q, kmer_indices_batch, d_encodings, i) ==
    IF i > Len(kmer_indices_batch) THEN q
    ELSE finetune_update_embeddings(
             update_embeddings(q, kmer_indices_batch[i], d_encodings[i],
                               q.embed_t, TDiv(config.finetune_lr, 10)),
             kmer_indices_batch, d_encodings, i + 1)

\* the step from the backward pass on
finetune_step_update(p, fwd, grads) ==
    finetune_update_embeddings(update_mlp(p, grads, fwd.loss),
                               fwd.kmer_indices_batch, grads.d_encodings, 1)

\* a step that computes d_W1, d_b1 and d_encodings once W2 is updated
finetune_step_backward_after_W2(p, fwd) ==
    LET grads == finetune_backward(p, fwd)
        later == finetune_backward(
                     [p EXCEPT !.W2 = adam_update_mat(p.opt_W2, p.W2, grads.d_W2).param], fwd)
    IN finetune_step_update(p, fwd,
           [grads EXCEPT !.d_W1 = later.d_W1, !.d_b1 = later.d_b1,
                         !.d_encodings = later.d_encodings])

\* the step from the forward pass on
finetune_step_backward(p, fwd) == finetune_step_update(p, fwd, finetune_backward(p, fwd))

\* _finetune_step on the training state p: the state after the step, with
\* the loss it returns in p.loss.
finetune_step(p, sequences, labels) ==
    finetune_step_backward(p, finetune_forward(p, sequences, labels))

\* "epoch_loss += loss * len(batch_labels)" after a step that led from p to q
add_step_loss(p, q, n) == [q EXCEPT !.epoch_loss = p.epoch_loss + q.loss * n]

\* The batch loop of one epoch of finetune, from 0-based offset i on.
RECURSIVE finetune_batches(_, _, _, _)
finetune_batches(p, seqs_shuf, labels_shuf, i) ==
    IF i >= Len(seqs_shuf) THEN p
    ELSE LET hi == Min(i + batch_size, Len(seqs_shuf))
             batch_seqs == SubSeq(seqs_shuf, i + 1, hi)
             batch_labels == SubSeq(labels_shuf, i + 1, hi)
         IN finetune_batches(
                add_step_loss(p, finetune_step(p, batch_seqs, batch_labels), Len(batch_labels)),
                seqs_shuf, labels_shuf, i + batch_size)

\* the training part of the epoch once idx is drawn (perm)
finetune_epoch_shuffled(p, train_seqs, train_labels, perm) ==
    finetune_batches([p EXCEPT !.rng = perm.rng, !.epoch_loss = 0],
                     array([i \in DOMAIN train_seqs |-> train_seqs[perm.list[i] + 1]]),
                     array([i \in DOMAIN train_seqs |-> train_labels[perm.list[i] + 1]]), 0)

\* The training part of one epoch: shuffle and batch loop.
finetune_train_epoch(p, train_seqs, train_labels) ==
    finetune_epoch_shuffled(p, train_seqs, train_labels,
                            permutation(Len(train_seqs), p.rng))

\* np.mean(np.array(val_preds) == np.array(val_labels))
accuracy(preds, labels) ==
    TDiv(Cardinality({i \in DOMAIN preds : preds[i] = labels[i]}) * One, Len(preds))

\* "if val_seqs:" -- None and the empty list are both false
truthy(l) == l # None /\ l # << >>

\* finetune that creates the classifier and its optimizers only if the model
\* has none ("if self.W1 is None")
FinetuneCallKeepingClassifier(train_seqs, train_labels, val_seqs, val_labels) ==
    /\ pc = "idle"
    /\ LET w1 == randn_matrix(rng, config.dim, config.mlp_hidden)
           s1 == rng_after(rng, config.dim * config.mlp_hidden)
           w2 == randn_matrix(s1, config.mlp_hidden, config.num_classes)
           s2 == rng_after(s1, config.mlp_hidden * config.num_classes)
       IN IF W1 = None
          THEN /\ W1' = w1
               /\ b1' = Zeros(config.mlp_hidden)
               /\ W2' = w2
               /\ b2' = Zeros(config.num_classes)
               /\ rng' = s2
               /\ opt_W1' = new_optimizer(w1, config.finetune_lr, TRUE)
               /\ opt_b1' = new_optimizer(Zeros(config.mlp_hidden), config.finetune_lr, FALSE)
               /\ opt_W2' = new_optimizer(w2, config.finetune_lr, TRUE)
               /\ opt_b2' = new_optimizer(Zeros(config.num_classes), config.finetune_lr, FALSE)
          ELSE UNCHANGED <<W1, b1, W2, b2, rng, opt_W1, opt_b1, opt_W2, opt_b2>>
    /\ pc' = "finetune"
    /\ frame' = [NoFrame EXCEPT !.sequences = train_seqs, !.labels = train_labels,
                                !.val_seqs = val_seqs, !.val_labels = val_labels]
    /\ ncalls' = [ncalls EXCEPT !.finetune = @ + 1]
    /\ UNCHANGED <<config, embeddings, kmers, kmer_to_idx, embed_m, embed_v, embed_t,
                   is_pretrained, is_finetuned, ret, prev>>

\* finetune up to the loop: the classifier and its optimizers are created.
FinetuneCall(train_seqs, train_labels, val_seqs, val_labels) ==
    /\ pc = "idle"
    /\ LET w1 == randn_matrix(rng, config.dim, config.mlp_hidden)
           s1 == rng_after(rng, config.dim * config.mlp_hidden)
           w2 == randn_matrix(s1, config.mlp_hidden, config.num_classes)
           s2 == rng_after(s1, config.mlp_hidden * config.num_classes)
       IN /\ W1' = w1
          /\ b1' = Zeros(config.mlp_hidden)
          /\ W2' = w2
          /\ b2' = Zeros(config.num_classes)
          /\ rng' = s2
          /\ opt_W1' = new_optimizer(w1, config.finetune_lr, TRUE)
          /\ opt_b1' = new_optimizer(Zeros(config.mlp_hidden), config.finetune_lr, FALSE)
          /\ opt_W2' = new_optimizer(w2, config.finetune_lr, TRUE)
          /\ opt_b2' = new_optimizer(Zeros(config.num_classes), config.finetune_lr, FALSE)
    /\ pc' = "finetune"
    /\ frame' = [NoFrame EXCEPT !.sequences = train_seqs, !.labels = train_labels,
                                !.val_seqs = val_seqs, !.val_labels = val_labels]
    /\ ncalls' = [ncalls EXCEPT !.finetune = @ + 1]
    /\ UNCHANGED <<config, embeddings, kmers, kmer_to_idx, embed_m, embed_v, embed_t,
                   is_pretrained, is_finetuned, ret, prev>>

\* early stopping with "best_epoch = epoch", the 0-based number of the epoch
early_stopping_zero_based(f, val_acc) ==
    LET improved == val_acc > f.best_val_acc + config.min_delta
        counter == IF improved THEN 0 ELSE f.patience_counter + 1
    IN [f EXCEPT !.val_acc = Append(@, val_acc),
                 !.best_val_acc = IF improved THEN val_acc ELSE @,
                 !.best_epoch = IF improved THEN f.epoch ELSE @,
                 !.patience_counter = counter,
                 !.stopped = counter >= config.patience]

\* early stopping with "if patience_counter > config.patience: break"
early_stopping_late(f, val_acc) ==
    LET improved == val_acc > f.best_val_acc + config.min_delta
        counter == IF improved THEN 0 ELSE f.patience_counter + 1
    IN [f EXCEPT !.val_acc = Append(@, val_acc),
                 !.best_val_acc = IF improved THEN val_acc ELSE @,
                 !.best_epoch = IF improved THEN f.epoch + 1 ELSE @,
                 !.patience_counter = counter,
                 !.stopped = counter > config.patience]

\* early stopping with "if val_acc >= best_val_acc + config.min_delta"
early_stopping_at_least(f, val_acc) ==
    LET improved == val_acc >= f.best_val_acc + config.min_delta
        counter == IF improved THEN 0 ELSE f.patience_counter + 1
    IN [f EXCEPT !.val_acc = Append(@, val_acc),
                 !.best_val_acc = IF improved THEN val_acc ELSE @,
                 !.best_epoch = IF improved THEN f.epoch + 1 ELSE @,
                 !.patience_counter = counter,
                 !.stopped = counter >= config.patience]

\* "if val_acc > best_val_acc + config.min_delta: ... else: patience_counter
\* += 1" and "if patience_counter >= config.patience: break", on the locals f
\* of finetune in epoch f.epoch (0-based)
early_stopping(f, val_acc) ==
    LET improved == val_acc > f.best_val_acc + config.min_delta
        counter == IF improved THEN 0 ELSE f.patience_counter + 1
    IN [f EXCEPT !.val_acc = Append(@, val_acc),
                 !.best_val_acc = IF improved THEN val_acc ELSE @,
                 !.best_epoch = IF improved THEN f.epoch + 1 ELSE @,
                 !.patience_counter = counter,
                 !.stopped = counter >= config.patience]

\* The locals of finetune after the validation of an epoch that trained the
\* model to q: history, best_val_acc, best_epoch, patience_counter, and
\* whether the loop breaks.
finetune_validate(f, q) ==
    IF truthy(f.val_seqs)
    THEN early_stopping(f, accuracy(predict(q, f.val_seqs).value, f.val_labels))
    ELSE f

\* The end of an epoch that trained the model to q.  With an empty training
\* set avg_loss = epoch_loss / len(train_seqs) divides by zero and the
\* exception leaves finetune.
\* the end of an epoch that keeps the classifier and the table of the epoch
\* before when the validation accuracy has not improved
FinetuneEpochEndKeepingBest(q) ==
    LET f == finetune_validate(
                 [frame EXCEPT !.train_loss =
                     Append(@, TDiv(q.epoch_loss, Max(Len(frame.sequences), 1)))], q)
        kept == IF truthy(frame.val_seqs) /\ f.patience_counter > 0
                THEN [q EXCEPT !.W1 = W1, !.b1 = b1, !.W2 = W2, !.b2 = b2,
                               !.embeddings = embeddings]
                ELSE q
    IN /\ StoreTrainState(kept)
       /\ IF Len(frame.sequences) = 0
          THEN /\ ret' = Raised("finetune", <<frame.sequences, frame.labels,
                                              frame.val_seqs, frame.val_labels>>,
                                "ZeroDivisionError")
               /\ prev' = ret
               /\ pc' = "idle"
               /\ frame' = NoFrame
          ELSE /\ frame' = [f EXCEPT !.epoch = @ + 1]
               /\ UNCHANGED <<pc, ret, prev>>

FinetuneEpochEnd(q) ==
    /\ StoreTrainState(q)
    /\ IF Len(frame.sequences) = 0
       THEN /\ ret' = Raised("finetune", <<frame.sequences, frame.labels,
                                           frame.val_seqs, frame.val_labels>>,
                             "ZeroDivisionError")
            /\ prev' = ret
            /\ pc' = "idle"
            /\ frame' = NoFrame
       ELSE /\ frame' = [finetune_validate(
                            [frame EXCEPT !.train_loss =
                                Append(@, TDiv(q.epoch_loss, Len(frame.sequences)))],
                            q)
                        EXCEPT !.epoch = @ + 1]
            /\ UNCHANGED <<pc, ret, prev>>

\* One iteration of "for epoch in range(config.finetune_epochs)".
FinetuneEpoch ==
    /\ pc = "finetune"
    /\ ~frame.stopped
    /\ frame.epoch < config.finetune_epochs
    /\ FinetuneEpochEnd(finetune_train_epoch(TrainState, frame.sequences, frame.labels))
    /\ UNCHANGED <<config, kmers, kmer_to_idx, is_pretrained, is_finetuned, ncalls>>

FinetuneReturn ==
    /\ pc = "finetune"
    /\ frame.stopped \/ frame.epoch >= config.finetune_epochs
    /\ is_finetuned' = TRUE
    /\ ret' = Returned("finetune",
                       <<frame.sequences, frame.labels, frame.val_seqs, frame.val_labels>>,
                       [best_val_acc |-> frame.best_val_acc,
                        best_epoch |-> frame.best_epoch,
                        history |-> [train_loss |-> frame.train_loss,
                                     val_acc |-> frame.val_acc]])
    /\ prev' = ret
    /\ pc' = "idle"
    /\ frame' = NoFrame
    /\ UNCHANGED <<config, rng, embeddings, kmers, kmer_to_idx, W1, b1, W2, b2,
                   opt_W1, opt_b1, opt_W2, opt_b2, embed_m, embed_v, embed_t,
                   is_pretrained, ncalls>>

(***************************************************************************)
(* Export (export_learned_embeddings.py, train_and_export from "Export     *)
(* embeddings" on).  json.dump writes a float as its repr, the shortest    *)
(* decimal that reads back as the same float: for a real in fixed point,   *)
(* the sign, the whole part, a point and the fractional digits without     *)
(* trailing zeros, at least one.  The file is the JSON object with its     *)
(* numbers as the texts written.                                           *)
(***************************************************************************)
digit_chars == <<"0", "1", "2", "3", "4", "5", "6", "7", "8", "9">>

\* repr of an int n >= 0
RECURSIVE int_repr(_)
int_repr(n) ==
    IF n < 10 THEN <<digit_chars[n + 1]>>
    ELSE int_repr(n \div 10) \o <<digit_chars[(n % 10) + 1]>>

\* the digits of the fraction f / unit, 0 <= f < unit, unit a power of 10
RECURSIVE frac_digits(_, _)
frac_digits(f, unit) ==
    LET u == unit \div 10
    IN <<digit_chars[(f \div u) + 1]>>
       \o (IF f % u = 0 THEN << >> ELSE frac_digits(f % u, u))

\* a repr that writes the magnitude only
float_repr_unsigned(x) ==
    int_repr(Abs(x) \div One) \o <<".">> \o frac_digits(Abs(x) % One, One)

\* float.__repr__ as json.dump uses it
float_repr(x) ==
    (IF x < 0 THEN <<"-">> ELSE << >>)
    \o int_repr(Abs(x) \div One) \o <<".">> \o frac_digits(Abs(x) % One, One)

\* ndarray.tolist() of a row: the list of its elements as Python floats
tolist(row) == [d \in 1..Len(row) |-> row[d]]

\* "for kmer, idx in model.kmer_to_idx.items(): embeddings[kmer] =
\* model.embeddings[idx].tolist()" and export_data
export_data ==
    [kmer_length |-> config.kmer_length,
     dimension |-> config.dim,
     embeddings |-> [kmer \in DOMAIN kmer_to_idx |-> tolist(embeddings[kmer_to_idx[kmer]])]]

\* json.dump(export_data, f): what the file holds
json_dump(data) ==
    [kmer_length |-> int_repr(data.kmer_length),
     dimension |-> int_repr(data.dimension),
     embeddings |-> [kmer \in DOMAIN data.embeddings |->
                        [d \in DOMAIN data.embeddings[kmer] |->
                            float_repr(data.embeddings[kmer][d])]]]

\* The export of the model as it is; the value is the file written.
Export ==
    /\ pc = "idle"
    /\ ret' = Returned("train_and_export", << >>, json_dump(export_data))
    /\ prev' = ret
    /\ UNCHANGED <<model_state, pc, frame, ncalls>>

(***************************************************************************)
(* Configurations and inputs                                               *)
(***************************************************************************)
\* real numbers in fixed point: lr 0.01 is 10, temperature 1.0 is One, ...
BaseConfig ==
    [dim |-> 2, kmer_length |-> 1, num_classes |-> 2,
     contrastive_lr |-> 10, contrastive_epochs |-> 2, temperature |-> One,
     num_negatives |-> 8,
     finetune_lr |-> 100, finetune_epochs |-> 3, l2_reg |-> 1, mlp_hidden |-> 2,
     patience |-> 1, min_delta |-> 1]

(***************************************************************************)
(* The PyTorch variant (hybrid_hdc_pytorch.py): a sequence becomes the     *)
(* tensor of the indices of its valid windows, a batch is padded to its    *)
(* longest tensor with a mask, and KmerEmbedding pools the rows of its     *)
(* weight under the mask.  The weight is the embedding table of the model. *)
(***************************************************************************)
\* DNASequenceDataset.__getitem__ without labels: "if not indices: indices
\* = [0]  # Padding"
dataset_getitem(seq) ==
    LET indices == kmer_indices(seq)
    IN IF indices = << >> THEN <<0>> ELSE indices

\* collate_sequences on tensors without labels: padded and masks
collate_sequences(batch) ==
    LET max_len == MaxOf([i \in DOMAIN batch |-> Len(batch[i])])
    IN [padded |-> [i \in DOMAIN batch |->
                       [j \in 1..max_len |-> IF j <= Len(batch[i]) THEN batch[i][j] ELSE 0]],
        masks |-> [i \in DOMAIN batch |-> [j \in 1..max_len |-> j <= Len(batch[i])]]]

\* KmerEmbedding.forward: mean of the rows under the mask, L2-normalized
kmer_embedding_forward(weight, indices, mask) ==
    [i \in DOMAIN indices |->
        LET counts == Max(Cardinality({j \in DOMAIN mask[i] : mask[i][j]}), 1)
            sum_embeds == [d \in 1..config.dim |->
                SumSeq([j \in DOMAIN indices[i] |->
                    IF mask[i][j] THEN weight[indices[i][j]][d] ELSE 0])]
        IN normalized([d \in 1..config.dim |-> TDiv(sum_embeds[d], counts)])]

\* The rows of the weight that the pooled vector of each sample of the
\* batch is computed from with a mask of 1: the rows to which the backward
\* pass of the sample carries a gradient.
rows_with_gradient(indices, mask) ==
    [i \in DOMAIN indices |-> {indices[i][j] : j \in {h \in DOMAIN mask[i] : mask[i][h]}}]

\* A batch of sequences through the dataset, the collation and the encoder.
KmerEmbeddingForward(sequences) ==
    /\ pc = "idle"
    /\ LET batch == collate_sequences([i \in DOMAIN sequences |-> dataset_getitem(sequences[i])])
       IN ret' = Returned("KmerEmbedding.forward", <<sequences>>,
                          [pooled |-> kmer_embedding_forward(embeddings, batch.padded, batch.masks),
                           rows |-> rows_with_gradient(batch.padded, batch.masks)])
    /\ prev' = ret
    /\ UNCHANGED <<model_state, pc, frame, ncalls>>

InputChars == {"A", "C", "G", "T", "N", "a"}

\* every sequence over InputChars of length <= n
SeqsUpTo(n) == UNION {[1..m -> InputChars] : m \in 0..n}

(***************************************************************************)
(* SpecEnc: encode as a function of its inputs.  The model is constructed  *)
(* for every kmer_length <= MaxK and seed, and encode is applied once to   *)
(* every sequence of length <= MaxLen.                                     *)
(***************************************************************************)
InitEnc ==
    \E k \in 1..MaxK, seed \in Seeds :
        Constructed([BaseConfig EXCEPT !.kmer_length = k], seed)

NextEnc ==
    /\ ret.op = "none"
    /\ \E sequence \in SeqsUpTo(MaxLen), normalize \in BOOLEAN :
           Encode(sequence, normalize)

SpecEnc == InitEnc /\ [][NextEnc]_vars

(***************************************************************************)
(* Spec: the life of one model object.  Calls come one at a time (the      *)
(* program is single-threaded); a run makes at most MaxCalls training      *)
(* calls and any number of reading calls in between.                       *)
(***************************************************************************)
seq_ACA == <<"A", "C", "A">>
seq_GTNa == <<"G", "T", "N", "a">>
seq_T == <<"T">>
seq_NN == <<"N", "N">>
seq_CCG == <<"C", "C", "G">>

MainConfigs ==
    {[BaseConfig EXCEPT !.kmer_length = 1, !.contrastive_epochs = 2,
                        !.finetune_epochs = 4, !.patience = 1],
     [BaseConfig EXCEPT !.kmer_length = 2, !.contrastive_epochs = 1,
                        !.finetune_epochs = 6, !.patience = 2],
     [BaseConfig EXCEPT !.kmer_length = 1, !.contrastive_epochs = 0,
                        !.finetune_epochs = 0, !.patience = 1]}

EncodeInputs == {seq_ACA, seq_NN}
PredictInputs == {<< >>, <<seq_ACA, seq_GTNa, seq_T>>}
PretrainInputs == {<< >>, <<seq_ACA>>, <<seq_ACA, seq_GTNa, seq_CCG, seq_T>>}
FinetuneInputs ==
    {[train_seqs |-> << >>, train_labels |-> << >>, val_seqs |-> None, val_labels |-> None],
     [train_seqs |-> <<seq_ACA, seq_CCG>>, train_labels |-> <<0, 1>>,
      val_seqs |-> None, val_labels |-> None],
     [train_seqs |-> <<seq_ACA, seq_CCG, seq_GTNa, seq_T>>, train_labels |-> <<0, 1, 1, 0>>,
      val_seqs |-> <<seq_CCG, seq_ACA, seq_T, seq_GTNa>>, val_labels |-> <<1, 0, 0, 1>>]}

Init == \E cfg \in MainConfigs : Constructed(cfg, 42)

TrainingCalls == ncalls.contrastive_pretrain + ncalls.finetune

Next ==
    \/ \E sequence \in EncodeInputs, normalize \in BOOLEAN : Encode(sequence, normalize)
    \/ \E sequences \in PredictInputs : Predict(sequences)
    \/ \E sequences \in PredictInputs : PredictProba(sequences)
    \/ /\ TrainingCalls < MaxCalls
       /\ \E sequences \in PretrainInputs : ContrastivePretrainCall(sequences)
    \/ ContrastivePretrainEpoch
    \/ ContrastivePretrainReturn
    \/ /\ TrainingCalls < MaxCalls
       /\ \E a \in FinetuneInputs :
              FinetuneCall(a.train_seqs, a.train_labels, a.val_seqs, a.val_labels)
    \/ FinetuneEpoch
    \/ FinetuneReturn
    \/ Export

Spec == Init /\ [][Next]_vars

(***************************************************************************)
(* SpecBatch: one call of contrastive_pretrain on a fresh model, on lists  *)
(* around the batch size of 32: one sequence, two, one batch and one       *)
(* sequence, one batch and two sequences.                                  *)
(***************************************************************************)
seq_TTT == <<"T", "T", "T">>

\* n sequences without the base T but for the one at position j
batch_list(n, j) ==
    [i \in 1..n |-> IF i = j THEN seq_TTT ELSE IF i % 2 = 0 THEN seq_ACA ELSE seq_CCG]

BatchInputs ==
    {batch_list(1, 1), batch_list(2, 1), batch_list(batch_size + 2, 1)}
    \cup {batch_list(batch_size + 1, j) : j \in {1, 9, 17, 25, 33}}

InitBatch ==
    \E k \in 1..MaxK, seed \in Seeds, epochs \in 1..2 :
        Constructed([BaseConfig EXCEPT !.kmer_length = k, !.contrastive_epochs = epochs],
                    seed)

NextBatch ==
    \/ /\ ncalls.contrastive_pretrain = 0
       /\ \E sequences \in BatchInputs : ContrastivePretrainCall(sequences)
    \/ ContrastivePretrainEpoch
    \/ ContrastivePretrainReturn

SpecBatch == InitBatch /\ [][NextBatch]_vars

(***************************************************************************)
(* SpecAug: augment_sequence as a function of its inputs: every sequence   *)
(* of length <= MaxLen, mutation rates from 0 to 1, and the generator      *)
(* states that the constructions leave.                                    *)
(***************************************************************************)
Rates == {0, One \div 10, One \div 2, One}

NextAug ==
    /\ ret.op = "none"
    /\ \/ \E sequence \in SeqsUpTo(MaxLen), rate \in Rates : Augment(sequence, rate)
       \/ \E sequence \in SeqsUpTo(MaxLen), rate \in Rates \ {0}, mask_rate \in {One \div 10, One} :
              AugmentMasking(sequence, rate, mask_rate)

SpecAug == InitEnc /\ [][NextAug]_vars

(***************************************************************************)
(* SpecCase: sequences in upper and lower case.  encode is applied to      *)
(* every sequence over the eight letters of length <= MaxLen; the trainers *)
(* run on lists in mixed case.                                             *)
(***************************************************************************)
CaseChars == {"A", "C", "G", "T", "a", "c", "g", "t"}

case_train == << <<"a", "c", "G", "t">>, <<"C", "g", "g">>, <<"t", "T", "a", "A">>, <<"G", "a", "c">> >>
case_val == << <<"c", "C", "g">>, <<"A", "c", "a">> >>

\* A run applies encode once to any sequence, or it trains and applies
\* encode to sequences of the training list.
NextCase ==
    \/ /\ ret.op = "none"
       /\ \E m \in 0..MaxLen : \E sequence \in [1..m -> CaseChars], normalize \in BOOLEAN :
              Encode(sequence, normalize)
    \/ /\ ret.op = "encode" => \E i \in DOMAIN case_train : ret.args[1] = case_train[i]
       /\ \/ /\ ret.op # "encode"
             /\ \E i \in DOMAIN case_train : Encode(case_train[i], TRUE)
          \/ /\ TrainingCalls < MaxCalls
             /\ ContrastivePretrainCall(case_train)
          \/ ContrastivePretrainEpoch
          \/ ContrastivePretrainReturn
          \/ /\ TrainingCalls < MaxCalls
             /\ \E val \in {<<None, None>>, <<case_val, <<1, 0>> >>} :
                    FinetuneCall(case_train, <<0, 1, 1, 0>>, val[1], val[2])
          \/ FinetuneEpoch
          \/ FinetuneReturn

SpecCase == InitEnc /\ [][NextCase]_vars

(***************************************************************************)
(* SpecAdam: AdamOptimizer.update as a function of its inputs: a fresh     *)
(* optimizer for a vector of two parameters, learning rates 0.001 and 0.1, *)
(* gradients from -2.0 to 2.0, and up to MaxUpdates calls on the object.   *)
(***************************************************************************)
GradValues == {-2 * One, -One, -1, 0, One \div 2, One}
AdamParams == {<<0, 0>>, <<One \div 2, -One>>}
LearningRates == {One \div 1000, One \div 10}

InitAdam == Constructed(BaseConfig, 42)

NextAdam ==
    \/ /\ ret.op = "none"
       /\ \E param \in AdamParams, grad \in [1..2 -> GradValues], lr \in LearningRates :
              AdamUpdate(param, grad, lr)
    \/ /\ ret.op = "AdamOptimizer.update"
       /\ ret.value.opt.t < MaxUpdates
       /\ \E grad \in [1..2 -> GradValues] : AdamUpdateAgain(grad)

SpecAdam == InitAdam /\ [][NextAdam]_vars

(***************************************************************************)
(* SpecLoss: the contrastive loss as a function of anchor, positive and up *)
(* to two negatives with entries -1, 0 and 1, and the losses of a          *)
(* pre-training, at temperatures 0.2 and 1.  (At lower temperatures        *)
(* exp(sim / temperature) leaves the resolution of the fixed point.)       *)
(***************************************************************************)
LossEntries == {-One, 0, One}

InitLoss ==
    \E temperature \in {One \div 5, One}, seed \in Seeds :
        Constructed([BaseConfig EXCEPT !.temperature = temperature], seed)

NextLoss ==
    \/ /\ ret.op = "none"
       /\ \E anchor \in [1..config.dim -> LossEntries],
             positive \in [1..config.dim -> LossEntries], n \in 0..2 :
             \E negatives \in [1..n -> [1..config.dim -> LossEntries]] :
                 ContrastiveLoss(anchor, positive, negatives)
    \/ /\ ret.op # "contrastive_loss"
       /\ \/ /\ TrainingCalls < MaxCalls
             /\ \E sequences \in PretrainInputs : ContrastivePretrainCall(sequences)
          \/ ContrastivePretrainEpoch
          \/ ContrastivePretrainReturn

SpecLoss == InitLoss /\ [][NextLoss]_vars

(***************************************************************************)
(* SpecStop: finetune with a validation set of four sequences, whose       *)
(* accuracy moves in steps of 0.25, for min_delta 0.001, 0.25 and 0.5.     *)
(***************************************************************************)
InitStop ==
    \E k \in 1..MaxK, seed \in Seeds, min_delta \in {1, One \div 4, One \div 2} :
        Constructed([BaseConfig EXCEPT !.kmer_length = k, !.min_delta = min_delta,
                                       !.finetune_epochs = 6, !.patience = 3], seed)

NextStop ==
    \/ /\ ncalls.finetune < MaxCalls
       /\ \E a \in {b \in FinetuneInputs : truthy(b.val_seqs)} :
              FinetuneCall(a.train_seqs, a.train_labels, a.val_seqs, a.val_labels)
    \/ FinetuneEpoch
    \/ FinetuneReturn

SpecStop == InitStop /\ [][NextStop]_vars

(***************************************************************************)
(* SpecTorch: the encoder of the PyTorch variant on batches of two         *)
(* sequences, the first any sequence of length <= MaxLen.                  *)
(***************************************************************************)
NextTorch ==
    /\ ret.op = "none"
    /\ \E first \in SeqsUpTo(MaxLen), second \in {seq_ACA, seq_NN} :
           KmerEmbeddingForward(<<first, second>>)

SpecTorch == InitEnc /\ [][NextTorch]_vars

(***************************************************************************)
(* SpecRoute: one call of either trainer on a batch of two sequences, the  *)
(* first any sequence of length <= MaxK + 1: shorter than k, with invalid  *)
(* windows, with one or two windows.                                       *)
(***************************************************************************)
RouteSeqs == SeqsUpTo(MaxK + 1)

InitRoute ==
    \E k \in 1..MaxK, seed \in Seeds :
        Constructed([BaseConfig EXCEPT !.kmer_length = k, !.contrastive_epochs = 1,
                                       !.finetune_epochs = 2], seed)

NextRoute ==
    \/ /\ ncalls.contrastive_pretrain + ncalls.finetune = 0
       /\ \E seq \in RouteSeqs : ContrastivePretrainCall(<<seq, seq_ACA>>)
    \/ ContrastivePretrainEpoch
    \/ ContrastivePretrainReturn
    \/ /\ ncalls.contrastive_pretrain + ncalls.finetune = 0
       /\ \E seq \in RouteSeqs : FinetuneCall(<<seq, seq_ACA>>, <<0, 1>>, None, None)
    \/ FinetuneEpoch
    \/ FinetuneReturn

SpecRoute == InitRoute /\ [][NextRoute]_vars

(***************************************************************************)
(* Training on sequences that leave rows of the table without a window:    *)
(* both trainers, at most MaxCalls calls in all, on lists of one batch.    *)
(***************************************************************************)
seq_CAC == <<"C", "A", "C">>
seq_AAC == <<"A", "A", "C">>

RowInputs ==
    {<<seq_NN, seq_NN>>,
     <<seq_ACA, seq_CAC>>,
     <<seq_ACA, seq_CAC, seq_AAC, seq_NN, seq_CAC, seq_ACA, seq_AAC>>}

\* labels for a list of sequences: 0 and 1 in turn
row_labels(sequences) == [i \in DOMAIN sequences |-> i % 2]

InitRows ==
    \E k \in 1..MaxK, seed \in Seeds :
        Constructed([BaseConfig EXCEPT !.kmer_length = k], seed)

NextRows ==
    \/ /\ ncalls.contrastive_pretrain + ncalls.finetune < MaxCalls
       /\ \E sequences \in RowInputs : ContrastivePretrainCall(sequences)
    \/ ContrastivePretrainEpoch
    \/ ContrastivePretrainReturn
    \/ /\ ncalls.contrastive_pretrain + ncalls.finetune < MaxCalls
       /\ \E sequences \in RowInputs :
              FinetuneCall(sequences, row_labels(sequences), None, None)
    \/ FinetuneEpoch
    \/ FinetuneReturn

SpecRows == InitRows /\ [][NextRows]_vars

(***************************************************************************)
(* Properties                                                              *)
(***************************************************************************)
ACGT == {"A", "C", "G", "T"}

\* the 0-based positions of the length-k windows of seq that are k-mers
ValidWindows(seq) ==
    {i \in 0..(Len(seq) - config.kmer_length) :
        \A j \in 1..config.kmer_length : upper(seq[i + j]) \in ACGT}

RECURSIVE SumOver(_, _)
SumOver(S, f) ==
    IF S = {} THEN 0
    ELSE LET x == CHOOSE x \in S : TRUE IN f[x] + SumOver(S \ {x}, f)

\* C1: for the kmer_length k of the model, generate_kmers(k) has exactly 4^k
\* elements and no duplicates, and every string s of length k over {A,C,G,T}
\* has a lookup kmer_to_idx[s] in [0, 4^k) with kmers[kmer_to_idx[s]] = s,
\* different strings having different indices.
C1_VocabularyBijective ==
    LET k == config.kmer_length
        S == [1..k -> ACGT]
    IN /\ Len(kmers) = 4^k
       /\ Cardinality({kmers[i] : i \in DOMAIN kmers}) = Len(kmers)
       /\ \A s \in S :
            /\ s \in DOMAIN kmer_to_idx
            /\ kmer_to_idx[s] \in 0..(4^k - 1)
            /\ kmers[kmer_to_idx[s] + 1] = s
       /\ Cardinality({kmer_to_idx[s] : s \in S}) = Cardinality(S)

\* a model with the longest k-mers, whose vocabulary a call of encode has
\* looked every window of a sequence up in
C1_Witness ==
    /\ config.kmer_length = MaxK
    /\ ret.op = "encode"
    /\ Len(ret.args[1]) > MaxK
    /\ Cardinality(ValidWindows(ret.args[1])) = Len(ret.args[1]) - MaxK + 1

\* C2: a call of predict or predict_proba on a model on which finetune was
\* never called, whatever calls of encode and contrastive_pretrain came
\* before, raises the not-fitted error (RuntimeError), returns no prediction
\* and leaves every field of the model as it was.
C2_UnfittedPredictFails ==
    [][(/\ pc = "idle" /\ pc' = "idle"
        /\ ret'.op \in {"predict", "predict_proba"}
        /\ ncalls.finetune = 0)
       => (/\ ret'.error = "RuntimeError"
           /\ ret'.value = None
           /\ UNCHANGED model_state)]_vars

\* predict or predict_proba was called with sequences on a model that was
\* pre-trained but never fine-tuned, right after the pre-training returned
C2_Witness ==
    /\ ret.op \in {"predict", "predict_proba"}
    /\ ret.args[1] # << >>
    /\ ret.error = "RuntimeError"
    /\ ncalls.finetune = 0
    /\ prev.op = "contrastive_pretrain"
    /\ is_pretrained

\* The epoch (1-based, 0 if none) of the last entry of the validation
\* accuracies acc that exceeds the best entry before it by more than
\* min_delta, the best starting at 0.
RECURSIVE last_improved(_, _, _, _)
last_improved(acc, i, best, e) ==
    IF i > Len(acc) THEN e
    ELSE IF acc[i] > best + config.min_delta
         THEN last_improved(acc, i + 1, acc[i], i)
         ELSE last_improved(acc, i + 1, best, e)

LastImprovedEpoch(acc) == last_improved(acc, 1, 0, 0)

\* C3: in finetune with a validation set and patience >= 1, if e is the last
\* epoch whose validation accuracy improves on the best by more than
\* min_delta and e + patience <= finetune_epochs, the loop runs no epoch
\* after e + patience, breaks exactly when epoch e + patience has ended, and
\* the call returns after exactly e + patience epochs.
C3_StopsAtLastImprovementPlusPatience ==
    /\ (pc = "finetune" /\ truthy(frame.val_seqs) /\ config.patience >= 1)
          => LET e == LastImprovedEpoch(frame.val_acc)
             IN (e >= 1 /\ e + config.patience <= config.finetune_epochs)
                   => /\ frame.epoch <= e + config.patience
                      /\ frame.stopped <=> (frame.epoch = e + config.patience)
    /\ (ret.op = "finetune" /\ ret.error = "none" /\ truthy(ret.args[3])
        /\ config.patience >= 1)
          => LET e == LastImprovedEpoch(ret.value.history.val_acc)
             IN (e >= 1 /\ e + config.patience <= config.finetune_epochs)
                   => /\ Len(ret.value.history.train_loss) = e + config.patience
                      /\ Len(ret.value.history.val_acc) = e + config.patience
                      /\ ret.value.best_epoch = e

\* finetune returned before its last epoch: the accuracy improved in an epoch
\* after the first, and patience > 1 epochs without improvement followed
C3_Witness ==
    /\ ret.op = "finetune" /\ ret.error = "none" /\ truthy(ret.args[3])
    /\ config.patience >= 2
    /\ LET e == LastImprovedEpoch(ret.value.history.val_acc)
       IN /\ e >= 2
          /\ Len(ret.value.history.train_loss) = e + config.patience
          /\ e + config.patience < config.finetune_epochs

\* C4: encode returns the zero vector of length dim, and raises nothing,
\* whenever the sequence is shorter than k or every one of its windows holds
\* a character that is none of A, C, G, T in either case.
C4_NoValidWindowGivesZero ==
    (ret.op = "encode" /\ ValidWindows(ret.args[1]) = {})
        => (ret.error = "none" /\ ret.value = Zeros(config.dim))

\* encode was applied to a sequence of at least k characters none of whose
\* windows is a k-mer, on a table whose row 0 is not zero
C4_Witness ==
    /\ ret.op = "encode"
    /\ Len(ret.args[1]) > config.kmer_length
    /\ ValidWindows(ret.args[1]) = {}
    /\ embeddings[0] # Zeros(config.dim)

\* C5: encode(sequence, normalize=False) is the arithmetic mean of the
\* embedding rows of the windows that are k-mers, one term per window
\* occurrence; the other windows contribute nothing and raise nothing.
C5_EncodeIsMeanOfValidWindows ==
    (ret.op = "encode" /\ ~ret.args[2] /\ ValidWindows(ret.args[1]) # {})
        => LET seq == ret.args[1]
               P == ValidWindows(seq)
               row == [i \in P |->
                          embeddings[kmer_to_idx[window(seq, i, config.kmer_length)]]]
           IN /\ ret.error = "none"
              /\ ret.value =
                    [d \in 1..config.dim |->
                        TDiv(SumOver(P, [i \in P |-> row[i][d]]), Cardinality(P))]

\* an unnormalized encoding of a sequence in which one k-mer occurs twice
\* and another window is not a k-mer
C5_Witness ==
    /\ ret.op = "encode" /\ ~ret.args[2]
    /\ LET seq == ret.args[1]
           P == ValidWindows(seq)
       IN /\ Cardinality(P) < Len(seq) - config.kmer_length + 1
          /\ \E i, j \in P :
                /\ i # j
                /\ window(seq, i, config.kmer_length) = window(seq, j, config.kmer_length)
          /\ \E i, j \in P :
                window(seq, i, config.kmer_length) # window(seq, j, config.kmer_length)
    /\ ret.value # Zeros(config.dim)

\* C6: encode changes neither the embedding table nor the random source,
\* and a call of encode that follows a call of encode on the same sequence,
\* nothing having run between them, returns the same vector.
C6_EncodeIsPure ==
    [][(pc = "idle" /\ pc' = "idle" /\ ret'.op = "encode")
       => (/\ embeddings' = embeddings
           /\ rng' = rng
           /\ (ret.op = "encode" /\ ret.args = ret'.args) => ret'.value = ret.value)]_vars

\* two calls of encode in a row on the same sequence, on a table that
\* pre-training has changed, returned the same nonzero vector
C6_Witness ==
    /\ ret.op = "encode" /\ prev.op = "encode"
    /\ ret.args = prev.args
    /\ ret.value = prev.value
    /\ ret.value # Zeros(config.dim)
    /\ is_pretrained
    /\ embed_t > 0

ClassifierAbsent ==
    /\ W1 = None /\ b1 = None /\ W2 = None /\ b2 = None
    /\ opt_W1 = None /\ opt_b1 = None /\ opt_W2 = None /\ opt_b2 = None

\* a step of a running contrastive_pretrain call, its return included
PretrainStep == pc = "contrastive_pretrain"

\* C7 as stated: the classifier is absent as long as finetune was not
\* called, and contrastive_pretrain writes nothing but the embedding table
\* and embed_m, embed_v, embed_t.
C7_PretrainWritesOnlyEmbeddingState ==
    /\ [](ncalls.finetune = 0 => ClassifierAbsent)
    /\ [][PretrainStep =>
            UNCHANGED <<config, rng, kmers, kmer_to_idx, W1, b1, W2, b2,
                        opt_W1, opt_b1, opt_W2, opt_b2,
                        is_pretrained, is_finetuned>>]_vars

\* C7, amended: the classifier weights and optimizers are absent as long as
\* finetune was not called; contrastive_pretrain writes the embedding table,
\* embed_m, embed_v, embed_t, the random source it draws from and the flag
\* is_pretrained, and nothing else: it never creates or changes classifier
\* weights or classifier optimizer state, before or after a finetune.
C7_PretrainLeavesClassifierAlone ==
    /\ [](ncalls.finetune = 0 => ClassifierAbsent)
    /\ [][PretrainStep =>
            UNCHANGED <<config, kmers, kmer_to_idx, W1, b1, W2, b2,
                        opt_W1, opt_b1, opt_W2, opt_b2, is_finetuned>>]_vars

\* a pre-training on at least two sequences has returned nonzero losses and
\* has stepped the embedding optimizer, and finetune was never called
C7_Witness ==
    /\ ret.op = "contrastive_pretrain"
    /\ Len(ret.args[1]) >= 2
    /\ ret.value # << >> /\ \A i \in DOMAIN ret.value : ret.value[i] > 0
    /\ embed_t > 0
    /\ ncalls.finetune = 0
    /\ ClassifierAbsent

\* C8: predict and predict_proba on a fitted model, for any input, leave the
\* embedding table, the classifier weights, all optimizer state and the
\* random source (and every other field of the model) as they were.
C8_PredictOnlyReads ==
    [][(/\ pc = "idle" /\ pc' = "idle"
        /\ ret'.op \in {"predict", "predict_proba"}
        /\ W1 # None)
       => UNCHANGED model_state]_vars

\* predict returned class labels for its sequences on a fine-tuned model
\* whose optimizers have stepped
C8_Witness ==
    /\ ret.op = "predict" /\ ret.error = "none"
    /\ Len(ret.value) = Len(ret.args[1]) /\ Len(ret.value) > 0
    /\ is_finetuned
    /\ opt_W1 # None /\ opt_W1.t > 0
    /\ embed_t > 0

\* C9 as stated: every finetune call returns, having executed at most
\* finetune_epochs epochs; exactly finetune_epochs with no validation set;
\* fewer with a validation set only if the last patience epochs brought no
\* improvement; history['train_loss'] has one entry per executed epoch.
C9_FinetuneRunsItsEpochs ==
    /\ pc = "finetune" =>
          /\ frame.epoch <= config.finetune_epochs
          /\ Len(frame.train_loss) = frame.epoch
    /\ ret.op = "finetune" =>
          /\ ret.error = "none"
          /\ LET n == Len(ret.value.history.train_loss)
                 acc == ret.value.history.val_acc
             IN /\ n <= config.finetune_epochs
                /\ ~truthy(ret.args[3]) => n = config.finetune_epochs
                /\ (truthy(ret.args[3]) /\ n < config.finetune_epochs)
                      => (Len(acc) = n /\ n - LastImprovedEpoch(acc) >= config.patience)

\* C10: contrastive_pretrain runs exactly contrastive_epochs epochs for any
\* list of sequences, appends one average loss per epoch at the end of the
\* list, and returns the list of contrastive_epochs entries; it raises
\* nothing and never leaves the loop early.
C10_PretrainRunsAllEpochs ==
    /\ [](pc = "contrastive_pretrain" =>
            /\ frame.epoch <= config.contrastive_epochs
            /\ Len(frame.losses) = frame.epoch)
    /\ [](ret.op = "contrastive_pretrain" =>
            /\ ret.error = "none"
            /\ Len(ret.value) = config.contrastive_epochs)
    /\ [][(pc = "contrastive_pretrain" /\ pc' = "contrastive_pretrain") =>
            /\ frame'.epoch = frame.epoch + 1
            /\ SubSeq(frame'.losses, 1, Len(frame.losses)) = frame.losses]_vars
    /\ [][(pc = "contrastive_pretrain" /\ pc' = "idle") =>
            /\ frame.epoch = config.contrastive_epochs
            /\ ret'.value = frame.losses]_vars

\* a pre-training of more than one epoch returned, on the empty list, on a
\* single sequence (every batch skipped) and on a list that trains
C10_Witness ==
    /\ ret.op = "contrastive_pretrain"
    /\ config.contrastive_epochs >= 2
    /\ Len(ret.value) = config.contrastive_epochs
    /\ prev.op = "contrastive_pretrain"
    /\ Len(prev.args[1]) <= 1
    /\ Len(ret.args[1]) >= 2
    /\ ret.value[1] # ret.value[2]

\* the k-mer indices of the valid windows of the sequences of a list
indices_of_all(seqs) ==
    UNION {{kmer_indices(seqs[i])[j] : j \in DOMAIN kmer_indices(seqs[i])} : i \in DOMAIN seqs}

\* the number of batches of n sequences that hold at least two sequences
trained_batches(n) == (n \div batch_size) + (IF n % batch_size >= 2 THEN 1 ELSE 0)

\* C11: an epoch of contrastive_pretrain executes one contrastive step per
\* batch of at least two sequences and none on a batch of one (embed_t counts
\* the steps).  A trailing batch of one sequence is skipped: rows whose k-mer
\* occurs in that sequence only keep their value and their moments; alone,
\* the sequence changes nothing and the loss of the epoch is 0; after one full
\* batch, the table, the moments and the loss of the epoch are those of the
\* step on the full batch.
C11_SingletonBatchSkipped ==
    [][(pc = "contrastive_pretrain" /\ pc' = "contrastive_pretrain") =>
        LET n == Len(frame.sequences)
            perm == permutation(n, rng)
            seqs_shuf == [i \in 1..n |-> frame.sequences[perm.list[i] + 1]]
        IN /\ embed_t' = embed_t + trained_batches(n)
           /\ (n % batch_size = 1) =>
                 LET others == SubSeq(seqs_shuf, 1, n - 1)
                     only == indices_of_all(<<seqs_shuf[n]>>) \ indices_of_all(others)
                 IN /\ \A r \in only : /\ embeddings'[r] = embeddings[r]
                                       /\ embed_m'[r] = embed_m[r]
                                       /\ embed_v'[r] = embed_v[r]
                    /\ (n = 1) => /\ embeddings' = embeddings
                                  /\ embed_m' = embed_m /\ embed_v' = embed_v
                                  /\ frame'.losses[Len(frame'.losses)] = 0
                    /\ (n = batch_size + 1) =>
                          LET q == contrastive_step([TrainState EXCEPT !.rng = perm.rng], others)
                          IN /\ embeddings' = q.embeddings
                             /\ embed_m' = q.embed_m /\ embed_v' = q.embed_v
                             /\ frame'.losses[Len(frame'.losses)] = q.loss]_vars

\* an epoch on one batch and one sequence has ended after a single step that
\* gave a loss and moved rows, and the row of the k-mer of T, which occurs in
\* one sequence only, has not moved: that sequence was the one skipped
C11_Witness ==
    /\ pc = "contrastive_pretrain"
    /\ Len(frame.sequences) = batch_size + 1
    /\ frame.epoch = 1 /\ embed_t = 1
    /\ frame.losses[1] > 0
    /\ LET t == indices_of_all(<<seq_TTT>>)
       IN /\ t # {}
          /\ \A r \in t : embed_v[r] = Zeros(config.dim)
          /\ \E r \in DOMAIN embed_v : embed_v[r] # Zeros(config.dim)

\* C12: augment_sequence returns a sequence of the length of its input, for
\* every input, mutation rate and state of the random source, and every
\* position of the output holds the symbol of the input at that position or
\* one of A, C, G, T.
C12_AugmentKeepsLength ==
    ret.op = "augment_sequence" =>
        /\ ret.error = "none"
        /\ Len(ret.value) = Len(ret.args[1])
        /\ \A i \in 1..Len(ret.value) :
              ret.value[i] = ret.args[1][i] \/ ret.value[i] \in ACGT

\* augment_sequence with the default rate returned a sequence of the longest
\* inputs in which a position was replaced, an N was kept and a lower-case
\* a was kept
C12_Witness ==
    /\ ret.op = "augment_sequence"
    /\ Len(ret.args) = 2 /\ ret.args[2] = mutation_rate
    /\ Len(ret.args[1]) = MaxLen
    /\ \E i, j, l \in 1..MaxLen :
          /\ ret.value[i] # ret.args[1][i]
          /\ ret.value[j] = "N"
          /\ ret.value[l] = "a"

\* the value of a text of decimal digits
RECURSIVE digits_value(_)
digits_value(text) ==
    IF text = << >> THEN 0
    ELSE digits_value(SubSeq(text, 1, Len(text) - 1)) * 10
         + ((CHOOSE i \in DOMAIN digit_chars : digit_chars[i] = text[Len(text)]) - 1)

\* the real, in fixed point, that a JSON number with a decimal point denotes
json_number(text) ==
    LET negative == text[1] = "-"
        body == IF negative THEN Tail(text) ELSE text
        point == CHOOSE i \in DOMAIN body : body[i] = "."
        whole == SubSeq(body, 1, point - 1)
        frac == SubSeq(body, point + 1, Len(body))
        magnitude == digits_value(whole) * One + (digits_value(frac) * One) \div (10 ^ Len(frac))
    IN IF negative THEN -magnitude ELSE magnitude

\* the mapping k-mer -> vector read back from the file
reloaded(file) ==
    [kmer \in DOMAIN file.embeddings |->
        [d \in DOMAIN file.embeddings[kmer] |-> json_number(file.embeddings[kmer][d])]]

\* encode computed from a mapping k-mer -> vector, k and dim alone
encode_from_mapping(mapping, k, dim, seq, normalize) ==
    LET P == {i \in 0..(Len(seq) - k) : [j \in 1..k |-> upper(seq[i + j])] \in DOMAIN mapping}
        mean == [d \in 1..dim |->
                    TDiv(SumOver(P, [i \in P |-> mapping[[j \in 1..k |-> upper(seq[i + j])]][d]]),
                         Cardinality(P))]
    IN IF P = {} THEN [d \in 1..dim |-> 0]
       ELSE IF normalize THEN normalized(mean) ELSE mean

\* the sequences the round trip is tried on
ExportTestSeqs == SeqsUpTo(MaxK) \cup {seq_ACA, seq_GTNa, seq_CCG, seq_T, seq_NN, seq_TTT}

\* C13: the file exported holds kmer_length and dimension and a mapping with
\* exactly one entry for each of the 4^k k-mers over A, C, G, T; read back,
\* the entry of a k-mer is a vector of length dim equal to the embedding row
\* of that k-mer at the time of the export, and encode computed from the
\* mapping read back alone equals encode of the model for every sequence.
C13_ExportRoundTrip ==
    (pc = "idle" /\ ret.op = "train_and_export") =>
        LET file == ret.value
            k == digits_value(file.kmer_length)
            dim == digits_value(file.dimension)
            mapping == reloaded(file)
        IN /\ k = config.kmer_length
           /\ dim = config.dim
           /\ DOMAIN file.embeddings = [1..k -> ACGT]
           /\ Cardinality(DOMAIN file.embeddings) = 4^k
           /\ \A kmer \in DOMAIN mapping :
                 /\ Len(mapping[kmer]) = dim
                 /\ mapping[kmer] = embeddings[kmer_to_idx[kmer]]
           /\ \A seq \in ExportTestSeqs, normalize \in BOOLEAN :
                 encode_from_mapping(mapping, k, dim, seq, normalize)
                    = encode(embeddings, seq, normalize)

\* a model that was pre-trained and fine-tuned was exported, and its table
\* holds negative entries, entries above 1 and entries with three decimals
C13_Witness ==
    /\ pc = "idle" /\ ret.op = "train_and_export"
    /\ is_pretrained /\ is_finetuned /\ embed_t > 0
    /\ \E r \in DOMAIN embeddings, d \in 1..config.dim : embeddings[r][d] < 0
    /\ \E r \in DOMAIN embeddings, d \in 1..config.dim : embeddings[r][d] > One
    /\ \E r \in DOMAIN embeddings, d \in 1..config.dim : embeddings[r][d] % 10 # 0

\* the sequence with its letters in upper case
uppercase(seq) == [i \in DOMAIN seq |-> upper(seq[i])]

uppercase_all(seqs) == [i \in DOMAIN seqs |-> uppercase(seqs[i])]

\* C14: for every sequence s over A, C, G, T, a, c, g, t, encode(s) equals
\* encode(uppercase(s)); the k-mer rows a training step updates for s are
\* those it updates for uppercase(s), and an epoch of either trainer leaves
\* the table and its moments as the same epoch on the sequences in upper
\* case does.
C14_CaseInsensitive ==
    /\ [](pc = "idle" /\ ret.op = "encode" =>
            /\ ret.value = encode(embeddings, uppercase(ret.args[1]), ret.args[2])
            /\ kmer_indices(ret.args[1]) = kmer_indices(uppercase(ret.args[1])))
    /\ [][(pc = "contrastive_pretrain" /\ pc' = "contrastive_pretrain") =>
            LET q == contrastive_epoch(TrainState, uppercase_all(frame.sequences))
            IN /\ embeddings' = q.embeddings
               /\ embed_m' = q.embed_m /\ embed_v' = q.embed_v
               /\ frame'.losses[Len(frame'.losses)] = q.avg_loss]_vars
    /\ [][(pc = "finetune" /\ pc' = "finetune" /\ frame'.epoch = frame.epoch + 1) =>
            LET q == finetune_train_epoch(TrainState, uppercase_all(frame.sequences), frame.labels)
            IN /\ embeddings' = q.embeddings
               /\ embed_m' = q.embed_m /\ embed_v' = q.embed_v
               /\ W1' = q.W1 /\ W2' = q.W2]_vars

\* a call of finetune on sequences in mixed case has trained the model, and
\* encode then gave a nonzero vector for one of them that holds letters of
\* both cases
C14_Witness ==
    /\ pc = "idle" /\ ret.op = "encode" /\ prev.op = "finetune"
    /\ is_finetuned /\ embed_t > 0
    /\ \E i \in DOMAIN prev.args[1] : prev.args[1][i] = ret.args[1]
    /\ \E i, j \in DOMAIN ret.args[1] : ret.args[1][i] \in ACGT /\ ret.args[1][j] \notin ACGT
    /\ ret.value # Zeros(config.dim)

\* C15: one update of a fresh AdamOptimizer (m = 0, v = 0, t = 0) with the
\* gradient g leaves t = 1, m = 0.1 * g and v = 0.001 * g^2 (the model keeps
\* 10 * m and 1000 * v), the bias-corrected moments g and g^2, and subtracts
\* lr * g / (|g| + eps) from each element of the parameter, eps being below
\* the resolution; every update call increases t by exactly 1.
C15_AdamFirstStep ==
    /\ [](ret.op = "AdamOptimizer.update" /\ prev.op = "none" =>
            LET param == ret.args[1]
                g == ret.args[2]
                lr == ret.args[3]
                opt == ret.value.opt
            IN /\ opt.t = 1
               /\ \A j \in DOMAIN g :
                     /\ opt.m[j] = g[j]
                     /\ opt.v[j] = g[j] * g[j]
                     /\ adam_m_hat(opt.m[j], opt.t) = g[j]
                     /\ adam_v_hat(opt.v[j], opt.t) = g[j] * g[j]
                     /\ ret.value.param[j] =
                           param[j] - (IF g[j] = 0 THEN 0
                                       ELSE TDiv(lr * g[j], Abs(g[j]) + adam_eps)))
    /\ [][(ret'.op = "AdamOptimizer.update" /\ ret.op = "AdamOptimizer.update"
           /\ ret' # ret)
            => ret'.value.opt.t = ret.value.opt.t + 1]_vars

\* a fresh optimizer was updated with a gradient of a positive and a
\* negative element (1.0 and -2.0), and then once more
C15_Witness ==
    /\ ret.op = "AdamOptimizer.update" /\ prev.op = "AdamOptimizer.update"
    /\ prev.args[2] = <<One, -2 * One>>
    /\ prev.args[3] = One \div 1000
    /\ prev.value.opt.t = 1 /\ ret.value.opt.t = 2
    /\ prev.value.param = <<prev.args[1][1] - 1, prev.args[1][2] + 1>>

\* C16: the contrastive loss of any anchor, positive and negatives is >= 0,
\* and so is every loss of an epoch of contrastive pre-training (with one
\* batch in the epoch, the loss of its step), while the call runs and in
\* the list it returns.
C16_ContrastiveLossNonNegative ==
    /\ ret.op = "contrastive_loss" => ret.value >= 0
    /\ pc = "contrastive_pretrain" =>
          \A i \in DOMAIN frame.losses : frame.losses[i] >= 0
    /\ ret.op = "contrastive_pretrain" =>
          \A i \in DOMAIN ret.value : ret.value[i] >= 0

\* the loss of an anchor that is closer to both of its negatives than to
\* its positive came out above log 3
C16_Witness ==
    /\ ret.op = "contrastive_loss"
    /\ Len(ret.args[3]) = 2
    /\ cosine_similarity(ret.args[1], ret.args[2]) < 0
    /\ \A n \in 1..2 : cosine_similarity(ret.args[1], ret.args[3][n]) > 0
    /\ ret.value > 1098

\* an epoch of a finetune call with a validation set has ended
ValidatedEpoch ==
    /\ pc = "finetune" /\ pc' = "finetune"
    /\ frame'.epoch = frame.epoch + 1
    /\ truthy(frame.val_seqs)

\* C17 as stated: after each epoch with validation the patience counter is
\* incremented exactly when val_acc - best_val_acc is below min_delta, and
\* is reset to 0, with best_val_acc and best_epoch updated, otherwise: an
\* improvement of exactly min_delta does not increment the counter.
C17_CounterIncrementsBelowMinDelta ==
    [][ValidatedEpoch =>
        LET val_acc == frame'.val_acc[Len(frame'.val_acc)]
        IN IF val_acc - frame.best_val_acc < config.min_delta
           THEN /\ frame'.patience_counter = frame.patience_counter + 1
                /\ frame'.best_val_acc = frame.best_val_acc
                /\ frame'.best_epoch = frame.best_epoch
           ELSE /\ frame'.patience_counter = 0
                /\ frame'.best_val_acc = val_acc
                /\ frame'.best_epoch = frame'.epoch]_vars

\* C17, amended: the counter is incremented exactly when val_acc -
\* best_val_acc is at most min_delta, and is reset to 0, with best_val_acc
\* and best_epoch updated, when it is above min_delta: an improvement of
\* exactly min_delta increments the counter.
C17_CounterIncrementsUpToMinDelta ==
    [][ValidatedEpoch =>
        LET val_acc == frame'.val_acc[Len(frame'.val_acc)]
        IN IF val_acc - frame.best_val_acc <= config.min_delta
           THEN /\ frame'.patience_counter = frame.patience_counter + 1
                /\ frame'.best_val_acc = frame.best_val_acc
                /\ frame'.best_epoch = frame.best_epoch
           ELSE /\ frame'.patience_counter = 0
                /\ frame'.best_val_acc = val_acc
                /\ frame'.best_epoch = frame'.epoch]_vars

\* the accuracy of the last epoch is above the best by exactly min_delta,
\* the best, from an earlier epoch, was kept and the counter was incremented
C17_Witness ==
    /\ pc = "finetune" /\ truthy(frame.val_seqs)
    /\ frame.epoch >= 2
    /\ frame.best_epoch >= 1 /\ frame.best_epoch < frame.epoch
    /\ frame.val_acc[frame.epoch] = frame.best_val_acc + config.min_delta
    /\ frame.patience_counter >= 1

\* The sum and the number of the per-anchor losses of the steps of an epoch
\* on the shuffled list, from 0-based offset i on, p being the training
\* state before the batch at i.
RECURSIVE anchor_losses(_, _, _, _, _)
anchor_losses(p, seqs_shuf, i, sum, count) ==
    IF i >= Len(seqs_shuf) THEN [sum |-> sum, count |-> count]
    ELSE LET batch == SubSeq(seqs_shuf, i + 1, Min(i + batch_size, Len(seqs_shuf)))
         IN IF Len(batch) < 2
            THEN anchor_losses(p, seqs_shuf, i + batch_size, sum, count)
            ELSE LET q == contrastive_step(p, batch)
                 IN IF q = q
                    THEN anchor_losses(q, seqs_shuf, i + batch_size,
                                       sum + q.total_loss, count + Len(batch))
                    ELSE [sum |-> sum, count |-> count]

\* C18 as stated: the loss that an epoch of contrastive_pretrain appends is
\* the mean of the per-anchor losses over all the anchors of all the
\* batches of the epoch (to within one unit of the fixed point), also when
\* the last batch is smaller than the others.
C18_EpochLossIsMeanOverAnchors ==
    [][(pc = "contrastive_pretrain" /\ pc' = "contrastive_pretrain") =>
        LET n == Len(frame.sequences)
            perm == permutation(n, rng)
            seqs_shuf == [i \in 1..n |-> frame.sequences[perm.list[i] + 1]]
            all == anchor_losses([TrainState EXCEPT !.rng = perm.rng], seqs_shuf, 0, 0, 0)
            loss == frame'.losses[Len(frame'.losses)]
        IN IF all.count = 0 THEN loss = 0
           ELSE Abs(loss - TDiv(all.sum, all.count)) <= 1]_vars

\* The windows of a batch that refer to row r: the number of the sample of
\* each, in batch order and in the order of the windows of a sample.
RECURSIVE references(_, _, _)
references(indices_batch, r, i) ==
    IF i > Len(indices_batch) THEN << >>
    ELSE [n \in 1..Len(SelectSeq(indices_batch[i], LAMBDA idx : idx = r)) |-> i]
         \o references(indices_batch, r, i + 1)

\* row r alone: its value and its moments in the training state p
row_of(p, r) ==
    [embeddings |-> (r :> p.embeddings[r]),
     embed_m |-> (r :> p.embed_m[r]),
     embed_v |-> (r :> p.embed_v[r])]

\* Row r after one Adam update per reference from position j of refs on,
\* each from the moments and the value the update before it has written;
\* d_vecs[i] is the gradient of sample i, shared by its windows.
RECURSIVE row_after(_, _, _, _, _, _, _, _)
row_after(row, r, refs, j, indices_batch, d_vecs, t, lr) ==
    IF j > Len(refs) THEN row
    ELSE LET i == refs[j]
             grad == [d \in DOMAIN d_vecs[i] |-> TDiv(d_vecs[i][d], Len(indices_batch[i]))]
         IN row_after(update_row(row, r, grad, t, lr), r, refs, j + 1,
                      indices_batch, d_vecs, t, lr)

\* the rows of the table and of its moments after the step are the rows of
\* p updated once per reference
rows_updated_per_reference(p, indices_batch, d_vecs, lr) ==
    \A r \in DOMAIN embeddings :
        LET row == row_after(row_of(p, r), r, references(indices_batch, r, 1), 1,
                             indices_batch, d_vecs, embed_t + 1, lr)
        IN /\ embeddings'[r] = row.embeddings[r]
           /\ embed_m'[r] = row.embed_m[r]
           /\ embed_v'[r] = row.embed_v[r]

\* d_anchor of the samples of a contrastive step from sample i on, s being
\* the state of the generator before the negatives of sample i are drawn
RECURSIVE contrastive_gradients(_, _, _, _)
contrastive_gradients(anchors, positives, s, i) ==
    IF i > Len(anchors) THEN << >>
    ELSE LET sh == shuffle(negative_candidates(Len(anchors), i), s)
         IN <<info_nce(anchors[i], positives[i], take_negatives(anchors, sh.list)).d_anchor>>
            \o contrastive_gradients(anchors, positives, sh.rng, i + 1)

\* C19: in a training step the rows of the embedding table are updated
\* sample by sample in batch order and once per k-mer window of a sample: a
\* row that n windows of the batch refer to has received n Adam updates, each
\* from the moments and the value the one before it wrote, with the gradient
\* of the sample of the window.  Stated on the epochs of one batch, where the
\* epoch is one step: of contrastive_pretrain (first conjunct) and of
\* finetune (second).
C19_RowsUpdatedPerWindow ==
    /\ [][(pc = "contrastive_pretrain" /\ pc' = "contrastive_pretrain"
            /\ Len(frame.sequences) \in 2..batch_size) =>
            LET n == Len(frame.sequences)
                perm == permutation(n, rng)
                seqs_shuf == [i \in 1..n |-> frame.sequences[perm.list[i] + 1]]
                aug == augment_all(seqs_shuf, 1, Len(seqs_shuf), perm.rng)
                anchors == encode_batch(embeddings, seqs_shuf, TRUE)
                positives == encode_batch(embeddings, aug.seqs, TRUE)
            IN /\ embed_t' = embed_t + 1
               /\ rows_updated_per_reference(TrainState,
                      [i \in 1..n |-> kmer_indices(seqs_shuf[i])],
                      contrastive_gradients(anchors, positives, aug.rng, 1),
                      config.contrastive_lr)]_vars
    /\ [][(pc = "finetune" /\ frame'.epoch = frame.epoch + 1
            /\ Len(frame.sequences) \in 1..batch_size) =>
            LET n == Len(frame.sequences)
                perm == permutation(n, rng)
                seqs_shuf == [i \in 1..n |-> frame.sequences[perm.list[i] + 1]]
                labels_shuf == [i \in 1..n |-> frame.labels[perm.list[i] + 1]]
                p == [TrainState EXCEPT !.rng = perm.rng]
                fwd == finetune_forward(p, seqs_shuf, labels_shuf)
            IN /\ embed_t' = embed_t + 1
               /\ rows_updated_per_reference(TrainState,
                      fwd.kmer_indices_batch,
                      finetune_backward(p, fwd).d_encodings,
                      TDiv(config.finetune_lr, 10))]_vars

\* a pretrained model after an epoch of finetune on a batch in which a row
\* is referred to by two windows of one sample and by a window of another
\* sample, and has moved
C19_Witness ==
    /\ pc = "finetune"
    /\ frame.epoch >= 1
    /\ is_pretrained
    /\ \E r \in DOMAIN embeddings :
          LET refs == references([i \in DOMAIN frame.sequences |->
                                     kmer_indices(frame.sequences[i])], r, 1)
          IN /\ Len(refs) >= 3
             /\ \E j \in 1..(Len(refs) - 1) : refs[j] = refs[j + 1]
             /\ \E j \in 1..(Len(refs) - 1) : refs[j] # refs[j + 1]
             /\ \E d \in DOMAIN embed_m[r] : embed_m[r][d] # 0

\* rows r of the table and of its moments are as before the step
rows_unchanged(rows) ==
    \A r \in rows : /\ embeddings'[r] = embeddings[r]
                    /\ embed_m'[r] = embed_m[r]
                    /\ embed_v'[r] = embed_v[r]

\* C20: a training step leaves every row of embeddings, embed_m and embed_v
\* whose k-mer is not a valid window of a sequence of the batch as it was,
\* the rows whose k-mer occurs in an augmented positive only among them.
\* Stated on the epochs of one batch, where the epoch is one step: of
\* contrastive_pretrain (first conjunct) and of finetune (second).
C20_OnlyWindowRowsChange ==
    /\ [][(pc = "contrastive_pretrain" /\ pc' = "contrastive_pretrain"
            /\ Len(frame.sequences) \in 2..batch_size) =>
            LET n == Len(frame.sequences)
                perm == permutation(n, rng)
                seqs_shuf == [i \in 1..n |-> frame.sequences[perm.list[i] + 1]]
                aug == augment_all(seqs_shuf, 1, Len(seqs_shuf), perm.rng)
                batch_rows == indices_of_all(frame.sequences)
            IN /\ rows_unchanged(DOMAIN embeddings \ batch_rows)
               /\ rows_unchanged(indices_of_all(aug.seqs) \ batch_rows)]_vars
    /\ [][(pc = "finetune" /\ frame'.epoch = frame.epoch + 1
            /\ Len(frame.sequences) \in 1..batch_size) =>
            rows_unchanged(DOMAIN embeddings \ indices_of_all(frame.sequences))]_vars

\* after the first epoch of contrastive_pretrain on a new model: a row whose
\* k-mer occurred in a positive of the step and in no sequence of the batch
\* is as constructed, and a row of the batch has moved
C20_Witness ==
    /\ pc = "contrastive_pretrain"
    /\ frame.epoch = 1
    /\ ncalls.contrastive_pretrain = 1 /\ ncalls.finetune = 0
    /\ Len(frame.sequences) \in 2..batch_size
    /\ \E seed \in Seeds :
          LET n == Len(frame.sequences)
              perm == permutation(n, rng_after(rng_seed(seed),
                                              (4^config.kmer_length) * config.dim))
              seqs_shuf == [i \in 1..n |-> frame.sequences[perm.list[i] + 1]]
              aug == augment_all(seqs_shuf, 1, Len(seqs_shuf), perm.rng)
              made == init_embeddings(seed, config.kmer_length, config.dim)
          IN /\ \E r \in indices_of_all(aug.seqs) \ indices_of_all(frame.sequences) :
                   /\ embeddings[r] = made[r]
                   /\ embed_m[r] = Zeros(config.dim)
                   /\ embed_v[r] = Zeros(config.dim)
             /\ \E r \in indices_of_all(frame.sequences) : embeddings[r] # made[r]

\* the number of steps of an epoch of finetune on n sequences
finetune_batches_of(n) == (n + batch_size - 1) \div batch_size

\* C21: embed_t is 0 after construction and rises by one per training step
\* of either phase, whatever the step updates: by the number of batches of
\* at least two sequences in an epoch of contrastive_pretrain, by the number
\* of batches in an epoch of finetune, also when no sequence of the batch has
\* a valid window.  Nothing else writes embed_t, embed_m or embed_v: the
\* call of finetune starts from what pretraining left.
C21_EmbedTCountsSteps ==
    /\ embed_t = 0
    /\ [][IF pc = "contrastive_pretrain" /\ pc' = "contrastive_pretrain"
          THEN embed_t' = embed_t + trained_batches(Len(frame.sequences))
          ELSE IF pc = "finetune" /\ ~(frame.stopped \/ frame.epoch >= config.finetune_epochs)
          THEN embed_t' = embed_t + finetune_batches_of(Len(frame.sequences))
          ELSE /\ embed_t' = embed_t
               /\ embed_m' = embed_m
               /\ embed_v' = embed_v]_vars

\* an epoch of finetune on sequences without a valid window has run on a
\* pretrained model: the moments are those of pretraining, and embed_t
\* counts the steps of both phases
C21_Witness ==
    /\ pc = "finetune"
    /\ frame.epoch >= 1
    /\ ncalls.contrastive_pretrain = 1
    /\ indices_of_all(frame.sequences) = {}
    /\ embed_t = config.contrastive_epochs + frame.epoch
    /\ \E r \in DOMAIN embed_m : embed_m[r] # Zeros(config.dim)

\* neg_idx[:num_negatives] of every sample of a batch of n sequences (the
\* positions of the negatives in the batch, 1-based), and the generator
\* after them; s is the generator before the negatives of the first sample.
\* The shuffle of a list draws once per element but the first, so the
\* generator before the negatives of sample i is s after the draws of the
\* i - 1 shuffles before it.
sample_negatives(n, s) ==
    LET draws == Len(negative_candidates(n, 1)) - 1
    IN [lists |-> array([i \in 1..n |->
                     take_negatives([j \in 1..n |-> j],
                         shuffle(negative_candidates(n, i),
                                 rng_after(s, (i - 1) * draws)).list)]),
        rng |-> rng_after(s, n * draws)]

\* The negatives of every sample of every step of an epoch on the shuffled
\* list, from 0-based offset i on: one list of lists per step.  The
\* generator is read by the augmentation of the batch and by the shuffles
\* of neg_idx only.
RECURSIVE epoch_negatives(_, _, _)
epoch_negatives(seqs_shuf, s, i) ==
    IF i >= Len(seqs_shuf) THEN [steps |-> << >>, rng |-> s]
    ELSE LET batch == SubSeq(seqs_shuf, i + 1, Min(i + batch_size, Len(seqs_shuf)))
         IN IF skip_batch(batch) THEN epoch_negatives(seqs_shuf, s, i + batch_size)
            ELSE LET aug == augment_all(batch, 1, Len(batch), s)
                     neg == sample_negatives(Len(batch), aug.rng)
                     rest == epoch_negatives(seqs_shuf, neg.rng, i + batch_size)
                 IN IF aug = aug /\ neg = neg
                    THEN [steps |-> <<neg.lists>> \o rest.steps, rng |-> rest.rng]
                    ELSE neg

\* C22: in a contrastive step on B sequences the negatives of sample i are
\* min(num_negatives, B - 1) positions of the batch, all different, none of
\* them i, and at least one.  The negatives are those the steps of the
\* epoch drew: the generator is left as these draws leave it.
C22_NegativesAreOtherAnchors ==
    [][(pc = "contrastive_pretrain" /\ pc' = "contrastive_pretrain") =>
        LET n == Len(frame.sequences)
            perm == permutation(n, rng)
            seqs_shuf == [i \in 1..n |-> frame.sequences[perm.list[i] + 1]]
            drawn == epoch_negatives(seqs_shuf, perm.rng, 0)
        IN /\ rng' = drawn.rng
           /\ Len(drawn.steps) = trained_batches(n)
           /\ \A b \in DOMAIN drawn.steps :
                 LET B == Len(drawn.steps[b])
                 IN /\ B >= 2
                    /\ \A i \in 1..B :
                          LET neg_idx == drawn.steps[b][i]
                          IN /\ Len(neg_idx) = Min(config.num_negatives, B - 1)
                             /\ Len(neg_idx) >= 1
                             /\ \A a \in DOMAIN neg_idx :
                                   neg_idx[a] \in 1..B /\ neg_idx[a] # i
                             /\ \A a, c \in DOMAIN neg_idx :
                                   a # c => neg_idx[a] # neg_idx[c]]_vars

\* an epoch has run on a list that makes a batch of more sequences than
\* num_negatives + 1 and a batch of fewer
C22_Witness ==
    /\ pc = "contrastive_pretrain"
    /\ frame.epoch >= 1
    /\ Len(frame.sequences) = batch_size + 2
    /\ batch_size - 1 > config.num_negatives
    /\ config.num_negatives > 1
    /\ embed_t = 2 * frame.epoch

\* C23: contrastive_pretrain on fewer than two sequences performs no
\* training step and raises nothing: from the call to the return the
\* embedding table, embed_m, embed_v and embed_t stay as they are, and the
\* call returns contrastive_epochs losses, all 0.
C23_TooFewSequencesTrainNothing ==
    [][((pc' = "contrastive_pretrain" /\ Len(frame'.sequences) < 2)
        \/ (pc = "contrastive_pretrain" /\ Len(frame.sequences) < 2)) =>
        /\ embeddings' = embeddings
        /\ embed_m' = embed_m
        /\ embed_v' = embed_v
        /\ embed_t' = embed_t
        /\ pc' \in {"contrastive_pretrain", "idle"}
        /\ pc' = "idle" =>
              /\ ret'.op = "contrastive_pretrain"
              /\ ret'.error = "none"
              /\ ret'.value = [e \in 1..config.contrastive_epochs |-> 0]]_vars

\* contrastive_pretrain has returned from a call on one sequence, on a
\* model that earlier training had moved
C23_Witness ==
    /\ pc = "idle"
    /\ ret.op = "contrastive_pretrain"
    /\ Len(ret.args[1]) = 1
    /\ Len(ret.value) >= 1
    /\ embed_t > 0

\* C24 as stated: in the PyTorch variant a sequence without a valid k-mer
\* window is encoded as the zero vector and carries a gradient to no row of
\* the embedding table.
C24_TorchNoWindowIsZero ==
    (ret.op = "KmerEmbedding.forward") =>
        \A i \in DOMAIN ret.args[1] :
            kmer_indices(ret.args[1][i]) = << >> =>
                /\ ret.value.pooled[i] = Zeros(config.dim)
                /\ ret.value.rows[i] = {}

C26_LastEpochWeightsKept ==
    /\ [][(pc = "finetune" /\ pc' = "finetune" /\ frame'.epoch = frame.epoch + 1) =>
            LET q == finetune_train_epoch(TrainState, frame.sequences, frame.labels)
            IN /\ frame'.stopped => frame'.epoch = frame'.best_epoch + config.patience
               /\ W1' = q.W1 /\ b1' = q.b1 /\ W2' = q.W2 /\ b2' = q.b2
               /\ embeddings' = q.embeddings]_vars
    /\ [][(pc = "finetune" /\ pc' = "idle" /\ ret'.error = "none") =>
            /\ Params' = Params
            /\ opt_W1'.t = finetune_batches_of(Len(frame.sequences))
                               * Len(ret'.value.history.train_loss)
            /\ opt_W2'.t = opt_W1'.t]_vars
    /\ [][(pc = "idle" /\ pc' = "idle" /\ ret'.op = "predict") =>
            ret' = predict(Params, ret'.args[1])]_vars

\* predict has answered after a finetune that stopped before its last
\* epoch and after its best epoch: the optimizers of the classifier have
\* stepped patience times since the best epoch
C26_Witness ==
    /\ pc = "idle"
    /\ ret.op = "predict" /\ ret.error = "none"
    /\ prev.op = "finetune" /\ prev.error = "none"
    /\ prev.value.best_epoch >= 1
    /\ Len(prev.value.history.train_loss) < config.finetune_epochs
    /\ Len(prev.value.history.train_loss) = prev.value.best_epoch + config.patience
    /\ opt_W1.t = prev.value.best_epoch + config.patience

\* an optimizer as AdamOptimizer.__init__ leaves it: t = 0 and moments 0
fresh_optimizer(opt, is_matrix) ==
    /\ opt.t = 0
    /\ IF is_matrix
       THEN \A i \in DOMAIN opt.m : \A j \in DOMAIN opt.m[i] :
                opt.m[i][j] = 0 /\ opt.v[i][j] = 0
       ELSE \A j \in DOMAIN opt.m : opt.m[j] = 0 /\ opt.v[j] = 0

\* C27: every call of finetune draws W1 and W2 anew from the generator,
\* sets b1 and b2 to zero and creates four optimizers with zero moments and
\* t = 0, whatever classifier the model had, and leaves the embedding table,
\* embed_m, embed_v and embed_t as they were; during the call the four
\* optimizers have the same t, the number of steps of the call so far.
C27_FinetuneStartsNewClassifier ==
    /\ [][(pc = "idle" /\ pc' = "finetune") =>
            /\ W1' = randn_matrix(rng, config.dim, config.mlp_hidden)
            /\ W2' = randn_matrix(rng_after(rng, config.dim * config.mlp_hidden),
                                  config.mlp_hidden, config.num_classes)
            /\ b1' = Zeros(config.mlp_hidden)
            /\ b2' = Zeros(config.num_classes)
            /\ fresh_optimizer(opt_W1', TRUE) /\ fresh_optimizer(opt_W2', TRUE)
            /\ fresh_optimizer(opt_b1', FALSE) /\ fresh_optimizer(opt_b2', FALSE)
            /\ embeddings' = embeddings
            /\ embed_m' = embed_m /\ embed_v' = embed_v /\ embed_t' = embed_t]_vars
    /\ [](pc = "finetune" =>
            LET steps == finetune_batches_of(Len(frame.sequences)) * frame.epoch
            IN /\ opt_W1.t = steps /\ opt_b1.t = steps
               /\ opt_W2.t = steps /\ opt_b2.t = steps)

\* the second call of finetune on a model that the first has trained, before
\* its first epoch
C27_Witness ==
    /\ pc = "finetune"
    /\ frame.epoch = 0
    /\ ncalls.finetune = 2
    /\ is_finetuned
    /\ embed_t > 0
    /\ opt_W1.t = 0

\* the losses of the samples of a contrastive step from sample i on, from
\* the encodings anchors and positives; s is the generator before the
\* negatives of sample i are drawn
RECURSIVE contrastive_losses(_, _, _, _)
contrastive_losses(anchors, positives, s, i) ==
    IF i > Len(anchors) THEN << >>
    ELSE LET sh == shuffle(negative_candidates(Len(anchors), i), s)
         IN <<info_nce(anchors[i], positives[i], take_negatives(anchors, sh.list)).loss>>
            \o contrastive_losses(anchors, positives, sh.rng, i + 1)

\* C28: a training step computes its losses and gradients from the
\* parameters it starts with.  In a contrastive step the loss of every
\* sample is that of the encodings of the anchors and positives under the
\* table as it was before the step, whatever rows the samples before it
\* have updated.  In a step of finetune the loss and d_W2, d_b2, d_W1, d_b1
\* and d_encodings are those of the forward and backward pass on W1, b1, W2,
\* b2 and the table as they were before the step, and each parameter is
\* updated with its own of these gradients.  Stated on the epochs of one
\* batch, where the epoch is one step.
C28_GradientsFromStepStart ==
    /\ [][(pc = "contrastive_pretrain" /\ pc' = "contrastive_pretrain"
            /\ Len(frame.sequences) \in 2..batch_size) =>
            LET n == Len(frame.sequences)
                perm == permutation(n, rng)
                seqs_shuf == [i \in 1..n |-> frame.sequences[perm.list[i] + 1]]
                aug == augment_all(seqs_shuf, 1, Len(seqs_shuf), perm.rng)
                anchors == encode_batch(embeddings, seqs_shuf, TRUE)
                positives == encode_batch(embeddings, aug.seqs, TRUE)
            IN frame'.losses[Len(frame'.losses)] =
                   TDiv(SumSeq(contrastive_losses(anchors, positives, aug.rng, 1)), n)]_vars
    /\ [][(pc = "finetune" /\ pc' = "finetune" /\ frame'.epoch = frame.epoch + 1
            /\ Len(frame.sequences) \in 1..batch_size) =>
            LET n == Len(frame.sequences)
                perm == permutation(n, rng)
                seqs_shuf == [i \in 1..n |-> frame.sequences[perm.list[i] + 1]]
                labels_shuf == [i \in 1..n |-> frame.labels[perm.list[i] + 1]]
                p == [TrainState EXCEPT !.rng = perm.rng]
                fwd == finetune_forward(p, seqs_shuf, labels_shuf)
                grads == finetune_backward(p, fwd)
            IN /\ frame'.train_loss[Len(frame'.train_loss)] = fwd.loss
               /\ W2' = adam_update_mat(opt_W2, W2, grads.d_W2).param
               /\ b2' = adam_update_vec(opt_b2, b2, grads.d_b2).param
               /\ W1' = adam_update_mat(opt_W1, W1, grads.d_W1).param
               /\ b1' = adam_update_vec(opt_b1, b1, grads.d_b1).param
               /\ rows_updated_per_reference(TrainState, fwd.kmer_indices_batch,
                      grads.d_encodings, TDiv(config.finetune_lr, 10))]_vars

\* the second epoch of finetune on a batch of several sequences has ended:
\* W2 had moved before the step, and the step moved W1 and W2
C28_Witness ==
    /\ pc = "finetune"
    /\ frame.epoch >= 2
    /\ Len(frame.sequences) >= 2
    /\ opt_W1.t = frame.epoch
    /\ \E i \in DOMAIN opt_W1.m : \E j \in DOMAIN opt_W1.m[i] : opt_W1.m[i][j] # 0
    /\ \E i \in DOMAIN opt_W2.m : \E j \in DOMAIN opt_W2.m[i] : opt_W2.m[i][j] # 0

\* the digit of a base: A = 0, C = 1, G = 2, T = 3
base_digit(b) == CASE b = "A" -> 0 [] b = "C" -> 1 [] b = "G" -> 2 [] b = "T" -> 3

\* the value of a k-mer read as a number in base 4, first symbol first
base4_value(s) ==
    SumSeq([i \in 1..Len(s) |-> base_digit(s[i]) * 4^(Len(s) - i)])

\* C29: the index of every k-mer over A, C, G, T in the vocabulary is its
\* value in base 4 with A = 0, C = 1, G = 2, T = 3 and the first symbol the
\* most significant digit.
C29_IndexIsBase4Value ==
    \A s \in [1..config.kmer_length -> {"A", "C", "G", "T"}] :
        /\ s \in DOMAIN kmer_to_idx
        /\ kmer_to_idx[s] = base4_value(s)
        /\ kmers[base4_value(s) + 1] = s

\* encode has looked up a window of a model with k >= 2 whose first and
\* last symbol differ
C29_Witness ==
    /\ config.kmer_length >= 2
    /\ ret.op = "encode"
    /\ \E idx \in {kmer_indices(ret.args[1])[j] : j \in DOMAIN kmer_indices(ret.args[1])} :
          /\ kmers[idx + 1][1] # kmers[idx + 1][config.kmer_length]
          /\ idx = base4_value(kmers[idx + 1])
          /\ idx > 0

\* what encode without normalization returns if it pools over indices
pooled_over(indices) ==
    IF indices = << >> THEN Zeros(config.dim) ELSE mean_rows(embeddings, indices)

\* C30: the list of k-mer indices by which a training step routes the
\* gradient of a sequence is, with order and multiplicity, the list encode
\* pools over: the step updates the rows of the table once per entry of the
\* list, in its order, and encode without normalization returns the mean of
\* the rows of the list, the zero vector if the list is empty; the encoding
\* that a step of finetune computes is encode(sequence, normalize=True) on
\* the table before the step.  First conjunct: _contrastive_step; second:
\* _finetune_step.
C30_RoutingListIsEncodeList ==
    /\ [][(pc = "contrastive_pretrain" /\ pc' = "contrastive_pretrain"
            /\ Len(frame.sequences) \in 2..batch_size) =>
            LET n == Len(frame.sequences)
                perm == permutation(n, rng)
                seqs_shuf == [i \in 1..n |-> frame.sequences[perm.list[i] + 1]]
                aug == augment_all(seqs_shuf, 1, Len(seqs_shuf), perm.rng)
                anchors == encode_batch(embeddings, seqs_shuf, TRUE)
                positives == encode_batch(embeddings, aug.seqs, TRUE)
                anchor_indices == [i \in 1..n |-> kmer_indices(seqs_shuf[i])]
            IN /\ rows_updated_per_reference(TrainState, anchor_indices,
                      contrastive_gradients(anchors, positives, aug.rng, 1),
                      config.contrastive_lr)
               /\ \A i \in 1..n :
                     encode(embeddings, seqs_shuf[i], FALSE) = pooled_over(anchor_indices[i])]_vars
    /\ [][(pc = "finetune" /\ pc' = "finetune" /\ frame'.epoch = frame.epoch + 1
            /\ Len(frame.sequences) \in 1..batch_size) =>
            LET n == Len(frame.sequences)
                perm == permutation(n, rng)
                seqs_shuf == [i \in 1..n |-> frame.sequences[perm.list[i] + 1]]
                labels_shuf == [i \in 1..n |-> frame.labels[perm.list[i] + 1]]
                p == [TrainState EXCEPT !.rng = perm.rng]
                fwd == finetune_forward(p, seqs_shuf, labels_shuf)
            IN /\ frame'.train_loss[Len(frame'.train_loss)] = fwd.loss
               /\ rows_updated_per_reference(TrainState, fwd.kmer_indices_batch,
                      finetune_backward(p, fwd).d_encodings, TDiv(config.finetune_lr, 10))
               /\ \A i \in 1..n :
                     /\ encode(embeddings, seqs_shuf[i], FALSE)
                           = pooled_over(fwd.kmer_indices_batch[i])
                     /\ fwd.encodings[i] = encode(embeddings, seqs_shuf[i], TRUE)]_vars

\* the second epoch of finetune has ended on a batch with a sequence shorter
\* than k, on a table the first epoch had moved
C30_Witness ==
    /\ pc = "finetune"
    /\ frame.epoch = 2
    /\ \E i \in DOMAIN frame.sequences :
          /\ Len(frame.sequences[i]) < config.kmer_length
          /\ Len(frame.sequences[i]) >= 1
    /\ \E r \in DOMAIN embed_v : embed_v[r] # Zeros(config.dim)
    /\ embed_t = 2

====
